---- MODULE Spec2Model ----
(***************************************************************************)
(* A model of the arXiv paper pipeline (src/arxiv): the SQLite Store       *)
(* (database.py), the Search Client (arxiv_search.py), the Extraction      *)
(* Client (pdf_ocr.py), the Summarization Client (summarizer.py) and the   *)
(* batch loop of the Ingestion Pipeline (crawler.py).                      *)
(*                                                                         *)
(* Each component has its own specification over its own variables; the    *)
(* variables of the other components stay at their initial values.         *)
(***************************************************************************)
EXTENDS Integers, Sequences, FiniteSets, TLC

(***************************************************************************)
(* Bounds of the model.                                                    *)
(***************************************************************************)
\* rows the papers table may hold, and the number of distinct arxiv_ids
MaxPapers == 2
\* rows the summaries table may hold in the Store specification
MaxSummaries == 2
\* distinct arxiv_ids the search API may return
MaxFeed == 3
\* entries in one parsed search response
MaxResponse == 2
\* entries in one response body given to _parse_arxiv_response
MaxEntries == 3
\* pages of the largest document (page_10 is the first key that sorts
\* differently as text and as a number)
MaxPages == 10
\* batch_size of a batch run
MaxBatch == 5
\* batch runs on one database in the life-cycle specification
MaxRuns == 2
\* insert_paper calls made on one connection
MaxCalls == 2
\* crawl cycles of one crawler process
MaxCycles == 2
\* run_cycle: self.process_papers(batch_size=3)
CycleBatch == 3

VARIABLES
    \* ---- Store (database.py): the committed tables of one database file
    papers,       \* table papers: sequence of rows, row i has id i
    summaries,    \* table summaries: sequence of rows, row i has id i
    last,         \* the last Store call: its name, arguments and result
    rows,         \* the list the last get_unprocessed_papers returned
    inserted,     \* history: arxiv_id -> the paper of its first successful insert
    summarized,   \* history: ids of stored papers insert_summary succeeded for
    \* ---- Search Client (arxiv_search.py): one ArxivSearcher
    seen_papers,    \* self.seen_papers
    output,         \* the searcher's last call and the list it returned
    multiple,       \* search_multiple_categories: loop position and all_papers
    times_returned, \* history: arxiv_id -> times returned since the last reset
    \* ---- the relevance pre-filter on one record
    fpaper,       \* the record
    fresult,      \* <<>> before the call, then <<accepted>>
    \* ---- Summarization Client (summarizer.py): one check_quantum_relevance
    rcall,        \* the response of the model and the threshold
    rresult,      \* <<>> before the call, then <<the returned dictionary>>
    \* ---- Extraction Client (pdf_ocr.py): one extract_text_from_pdf
    ocr_pc,       \* "idle", "downloaded", "url_raised", "loop", "returned", "raised", "joined"
    download,     \* how the download of extract_text_from_url ended, "none" without one
    pdf,            \* the document: its pages, and the argument max_pages
    images,         \* len(images)
    extracted_text, \* the dict: <<key, text>> items in insertion order
    page_calls,     \* history: the outcome of the OCR call of each page
    full_text,      \* what get_full_text returned
    joined_order,   \* the item order of the dict get_full_text was given
    \* ---- Ingestion Pipeline (crawler.py, main.py): one batch run on the Store
    pipe_pc,      \* "idle", "loop", "done", "exited", "raised"
    driver,       \* whose loop runs: "crawler" or "main"
    ocr_key,      \* Config.OCR_API_KEY is set (not the empty string)
    summary_key,  \* Config.SUMMARY_API_KEY is set
    ocr_processor, \* self.ocr_processor is a client, not None
    summarizer,   \* self.summarizer is a client, not None
    batch,        \* the list get_unprocessed_papers returned
    outcomes,     \* history: how the pass of each handled paper ended
    stats,        \* processed, skipped (main.py) and errors of the run
    batch_size,   \* the argument batch_size of the run
    runs,         \* history: batch runs started on this database
    last_pass,    \* history: the paper of the last pass and the calls made for it
    interrupted,  \* history: papers whose pass the process stopped in, not handled since
    \* ---- Scheduler (crawler.py): one crawler process
    crawl_pc,     \* where the main thread is
    running,      \* self.running
    conn_open,    \* the Store connection is open
    continuous,   \* start(continuous=...)
    cycles,       \* cycles entered so far
    pending,      \* papers of the batch in flight still to be passed
    in_flight,    \* a cycle was entered and has not ended
    signalled,    \* _signal_handler has run
    events,        \* history: what the process logged and did, in order
    \* ---- Search Client: one call of _parse_arxiv_response
    parse_pc,     \* "idle" before the call, "parsed" after it
    xml_data,     \* the response body
    parsed_papers, \* what the call returned, or that it raised
    \* ---- Store: two connections on one database file
    conn_table,   \* the committed rows of table papers
    conn_lock,    \* the connection that holds the write lock, or Unlocked
    conn_pc,      \* for each connection: where its insert_paper call is
    conn_arg,     \* for each connection: the paper of its call
    conn_row,     \* for each connection: the row written and not committed
    conn_calls,    \* history: for each connection the calls it finished
    \* ---- Collection summary (crawler.py, markdown_exporter.py)
    collection,   \* the papers COLLECTION_SUMMARY.md was last written from, by row id
    last_export,  \* how step 3 of the last cycle ended
    regenerations, \* history: how often the summary file was written
    \* ---- Crawler search (crawler.py): one call of search_new_papers
    query,        \* the query of the two loops the call is at, 0 outside a call
    total_new_papers, \* the local total_new_papers of the call
    last_query,    \* history: what the last query returned and how many it saved
    \* ---- Store (database.py): one insert_summary call, statement by statement
    tx_pc,        \* "idle", "inserted", "updated", or "exited" once the process has ended
    tx_db,        \* the tables as the connection sees them, with its uncommitted work
    tx_call,      \* the arguments of the call in progress
    tx_last,       \* history: how the last call ended
    \* ---- Repeated crawl cycles (crawler.py): batch after batch, without end
    attempt       \* history: the paper of the last pass and whether its calls succeeded

storeVars == <<papers, summaries, last, rows, inserted, summarized>>
searchVars == <<seen_papers, output, multiple, times_returned>>
filterVars == <<fpaper, fresult>>
relevanceVars == <<rcall, rresult>>
ocrVars ==
    <<ocr_pc, download, pdf, images, extracted_text, page_calls, full_text, joined_order>>
configVars == <<ocr_key, summary_key, ocr_processor, summarizer>>
pipelineVars ==
    <<pipe_pc, driver, configVars, batch, outcomes, stats, batch_size, runs, last_pass,
      interrupted>>
crawlerVars ==
    <<crawl_pc, running, conn_open, continuous, cycles, pending, in_flight, signalled,
      events>>
parseVars == <<parse_pc, xml_data, parsed_papers>>
connVars == <<conn_table, conn_lock, conn_pc, conn_arg, conn_row, conn_calls>>
exportVars == <<collection, last_export, regenerations>>
ingestVars == <<query, total_new_papers, last_query>>
txVars == <<tx_pc, tx_db, tx_call, tx_last>>
repeatVars == <<attempt>>
vars == <<storeVars, searchVars, filterVars, relevanceVars, ocrVars, pipelineVars,
      crawlerVars,
      parseVars,
      connVars,
      exportVars,
      ingestVars,
      txVars,
      repeatVars>>

\* what an action of one component leaves alone
exceptStore == <<searchVars, filterVars, relevanceVars, ocrVars, pipelineVars,
      crawlerVars,
      parseVars,
      connVars,
      exportVars,
      ingestVars,
      txVars,
      repeatVars>>
exceptSearch == <<storeVars, filterVars, relevanceVars, ocrVars, pipelineVars,
      crawlerVars,
      parseVars,
      connVars,
      exportVars,
      ingestVars,
      txVars,
      repeatVars>>
exceptFilter == <<storeVars, searchVars, relevanceVars, ocrVars, pipelineVars,
      crawlerVars,
      parseVars,
      connVars,
      exportVars,
      ingestVars,
      txVars,
      repeatVars>>
exceptRelevance == <<storeVars, searchVars, filterVars, ocrVars, pipelineVars,
      crawlerVars,
      parseVars,
      connVars,
      exportVars,
      ingestVars,
      txVars,
      repeatVars>>
\* a batch run works on the tables papers and summaries of the Store
exceptPipeline ==
    <<last, rows, inserted, summarized, searchVars, filterVars, relevanceVars, ocrVars,
      crawlerVars,
      parseVars,
      connVars,
      exportVars,
      ingestVars,
      txVars,
      repeatVars>>
exceptOCR == <<storeVars, searchVars, filterVars, relevanceVars, pipelineVars,
      crawlerVars,
      parseVars,
      connVars,
      exportVars,
      ingestVars,
      txVars,
      repeatVars>>
exceptCrawler ==
    <<storeVars, searchVars, filterVars, relevanceVars, ocrVars, pipelineVars,
      parseVars,
      connVars,
      exportVars,
      ingestVars,
      txVars,
      repeatVars>>
exceptParse ==
    <<storeVars, searchVars, filterVars, relevanceVars, ocrVars, pipelineVars, crawlerVars,
      connVars,
      exportVars,
      ingestVars,
      txVars,
      repeatVars>>
exceptConn ==
    <<storeVars, searchVars, filterVars, relevanceVars, ocrVars, pipelineVars, crawlerVars, parseVars,
      exportVars,
      ingestVars,
      txVars,
      repeatVars>>
\* step 3 of a cycle reads the Store and moves the cycle on
exceptExport ==
    <<storeVars, searchVars, filterVars, relevanceVars, ocrVars, crawlerVars, parseVars,
      connVars,
      ingestVars,
      txVars,
      repeatVars>>
exceptIngest ==
    <<filterVars, relevanceVars, ocrVars, pipelineVars, crawlerVars, parseVars, connVars,
      exportVars,
      txVars,
      repeatVars>>
exceptTx ==
    <<searchVars, filterVars, relevanceVars, ocrVars, pipelineVars, crawlerVars,
      parseVars, connVars, exportVars, ingestVars,
      repeatVars>>
exceptRepeat ==
    <<searchVars, filterVars, relevanceVars, ocrVars, crawlerVars, parseVars,
      connVars, exportVars, ingestVars, txVars>>

(***************************************************************************)
(* Values.                                                                 *)
(***************************************************************************)
\* Python's None as a returned row id ("return None"); real ids start at 1
None == 0
\* SQL NULL / Python None as a text value
NULL == "NULL"

ArxivIds == 1..MaxPapers
\* the dictionaries insert_paper may be given: for each arxiv_id two records
\* that differ in title and published, and one whose title is None (which the
\* NOT NULL constraint rejects)
PaperDict(a, v) ==
    [arxiv_id |-> a,
     title |-> IF v = 0 THEN NULL ELSE IF v = 1 THEN "t1" ELSE "t2",
     \* published: a text timestamp, modelled by its rank in string order
     published |-> ((a + v) % 2) + 1]

PaperDicts == {PaperDict(a, v) : a \in ArxivIds, v \in 0..2}

NoPaper == [arxiv_id |-> 0, title |-> NULL, published |-> 0]
NoRow == [id |-> 0, arxiv_id |-> 0, title |-> NULL, published |-> 0, processed |-> FALSE]

(***************************************************************************)
(* Store: schema and statements (database.py).                             *)
(***************************************************************************)
\* the rows of a table with a given property, as a set of row ids
PaperIdsWith(tbl, aid) == {i \in 1..Len(tbl) : tbl[i].arxiv_id = aid}

RowOfArxivId(tbl, aid) ==
    IF PaperIdsWith(tbl, aid) = {} THEN NoRow
    ELSE tbl[CHOOSE i \in PaperIdsWith(tbl, aid) : TRUE]

RowOfId(tbl, pid) ==
    IF pid \in 1..Len(tbl) THEN tbl[pid] ELSE NoRow

\* arxiv_id TEXT UNIQUE NOT NULL: would a new row with this arxiv_id violate it
ArxivIdTakenNoConstraint(tbl, aid) == FALSE
ArxivIdTaken(tbl, aid) == PaperIdsWith(tbl, aid) # {}

\* title TEXT NOT NULL
NotNullViolated(paper) == paper.title = NULL

\* INSERT INTO papers (...): the new row, id INTEGER PRIMARY KEY AUTOINCREMENT,
\* processed BOOLEAN DEFAULT 0
NewPaperRow(tbl, paper) ==
    [id |-> Len(tbl) + 1, arxiv_id |-> paper.arxiv_id, title |-> paper.title,
     published |-> paper.published, processed |-> FALSE]

\* INSERT INTO summaries (...): the foreign key is declared but SQLite does not
\* enforce it unless PRAGMA foreign_keys is set, which the code never does
NewSummaryRow(tbl, paper_id, methodology_summary, key_contributions) ==
    [id |-> Len(tbl) + 1, paper_id |-> paper_id,
     methodology_summary |-> methodology_summary,
     key_contributions |-> key_contributions]

\* UPDATE papers SET processed = 1 WHERE id = ?
MarkProcessedToggles(tbl, paper_id) ==
    [i \in 1..Len(tbl) |->
        IF tbl[i].id = paper_id THEN [tbl[i] EXCEPT !.processed = ~@] ELSE tbl[i]]
MarkProcessedNever(tbl, paper_id) == tbl
MarkProcessed(tbl, paper_id) ==
    [i \in 1..Len(tbl) |->
        IF tbl[i].id = paper_id THEN [tbl[i] EXCEPT !.processed = TRUE] ELSE tbl[i]]

\* self.conn.rollback(): the tables are again the committed ones
RollbackKeepsWork(committed, working) == working
Rollback(committed, working) == committed

\* self.conn.commit(): the working tables become the committed ones
Commit(committed, working) == working

(***************************************************************************)
(* insert_paper: the result [db, ret, raised] of the call on tables db.    *)
(* fault: the statement or the commit raises an error other than           *)
(* IntegrityError (disk, lock).                                            *)
(***************************************************************************)
insert_paper(db, paper, fault) ==
    LET working == [db EXCEPT !.papers = Append(db.papers, NewPaperRow(db.papers, paper))]
    IN  IF ~fault /\ (ArxivIdTaken(db.papers, paper.arxiv_id) \/ NotNullViolated(paper))
        THEN \* except sqlite3.IntegrityError: return None
             [db |-> db, ret |-> None, raised |-> FALSE]
        ELSE IF fault
        THEN \* except Exception: rollback, return None
             [db |-> Rollback(db, working), ret |-> None, raised |-> FALSE]
        ELSE [db |-> Commit(db, working), ret |-> Len(working.papers), raised |-> FALSE]

(***************************************************************************)
(* insert_summary: INSERT, UPDATE, commit; any exception rolls back.       *)
(* fault names the statement that raises ("none": no statement does).      *)
(***************************************************************************)
SummaryFaults == {"none", "insert", "update", "commit"}

insert_summary(db, paper_id, methodology_summary, key_contributions, fault) ==
    LET w1 == [db EXCEPT !.summaries =
                  Append(db.summaries,
                         NewSummaryRow(db.summaries, paper_id,
                                       methodology_summary, key_contributions))]
        w2 == [w1 EXCEPT !.papers = MarkProcessed(w1.papers, paper_id)]
    IN  CASE fault = "insert" -> [db |-> Rollback(db, db), ret |-> None, raised |-> FALSE]
          [] fault = "update" -> [db |-> Rollback(db, w1), ret |-> None, raised |-> FALSE]
          [] fault = "commit" -> [db |-> Rollback(db, w2), ret |-> None, raised |-> FALSE]
          [] OTHER -> \* cursor.lastrowid is the rowid of the INSERT
                      [db |-> Commit(db, w2), ret |-> Len(w2.summaries), raised |-> FALSE]

(***************************************************************************)
(* get_unprocessed_papers: SELECT * FROM papers WHERE processed = 0        *)
(* ORDER BY published DESC LIMIT ?.  SQL leaves the order of rows with     *)
(* equal published open, so the result is one of a set of lists.           *)
(***************************************************************************)
UnprocessedIdsAll(tbl) == {i \in 1..Len(tbl) : TRUE}
UnprocessedIds(tbl) == {i \in 1..Len(tbl) : tbl[i].processed = FALSE}

\* ORDER BY published DESC: the rows that may come first
NewestUnordered(tbl, S) == S
Newest(tbl, S) == {i \in S : \A j \in S : tbl[j].published <= tbl[i].published}

RECURSIVE OrderedLists(_, _, _)
OrderedLists(tbl, S, limit) ==
    IF limit = 0 \/ S = {} THEN {<<>>}
    ELSE UNION {{<<tbl[i]>> \o t : t \in OrderedLists(tbl, S \ {i}, limit - 1)} :
                   i \in Newest(tbl, S)}

get_unprocessed_papers(tbl, limit) == OrderedLists(tbl, UnprocessedIds(tbl), limit)

(***************************************************************************)
(* The Store specification: any sequence of calls on one connection.       *)
(***************************************************************************)
Db == [papers |-> papers, summaries |-> summaries]

Call(op, paper, paper_id, limit, pre, r) ==
    [op |-> op, paper |-> paper, paper_id |-> paper_id, limit |-> limit, pre |-> pre,
     nsum |-> Len(summaries), ret |-> r.ret, raised |-> r.raised]

StoreInit ==
    /\ papers = <<>>
    /\ summaries = <<>>
    /\ last = [op |-> "init", paper |-> NoPaper, paper_id |-> 0, limit |-> 0,
               pre |-> NoRow,
               nsum |-> 0, ret |-> None, raised |-> FALSE]
    /\ rows = <<>>
    /\ inserted = [a \in ArxivIds |-> NoPaper]
    /\ summarized = {}

InsertPaper ==
    \E paper \in PaperDicts, fault \in BOOLEAN :
        LET r == insert_paper(Db, paper, fault)
        IN  /\ Len(r.db.papers) <= MaxPapers
            /\ papers' = r.db.papers
            /\ summaries' = r.db.summaries
            /\ last' = Call("insert_paper", paper, 0, 0,
                            RowOfArxivId(papers, paper.arxiv_id), r)
            /\ inserted' = IF r.ret # None /\ inserted[paper.arxiv_id] = NoPaper
                           THEN [inserted EXCEPT ![paper.arxiv_id] = paper]
                           ELSE inserted
            /\ rows' = <<>>
            /\ UNCHANGED <<summarized, exceptStore>>

InsertSummary ==
    \E paper_id \in 1..MaxPapers, fault \in SummaryFaults :
        LET r == insert_summary(Db, paper_id, "methodology", "contributions", fault)
        IN  /\ Len(r.db.summaries) <= MaxSummaries
            /\ papers' = r.db.papers
            /\ summaries' = r.db.summaries
            /\ last' = Call("insert_summary", NoPaper, paper_id, 0,
                            RowOfId(papers, paper_id), r)
            /\ summarized' = IF r.ret # None /\ paper_id \in 1..Len(papers)
                             THEN summarized \cup {paper_id}
                             ELSE summarized
            /\ rows' = <<>>
            /\ UNCHANGED <<inserted, exceptStore>>

GetUnprocessedPapers ==
    \E limit \in 0..MaxPapers :
        \E result \in get_unprocessed_papers(papers, limit) :
            /\ rows' = result
            /\ last' = Call("get_unprocessed_papers", NoPaper, 0, limit, NoRow,
                            [ret |-> Len(result), raised |-> FALSE])
            /\ UNCHANGED <<papers, summaries, inserted, summarized, exceptStore>>

StoreNext ==
    \/ InsertPaper
    \/ InsertSummary
    \/ GetUnprocessedPapers


(***************************************************************************)
(* Text.  A Python str is modelled as the sequence of its characters.      *)
(***************************************************************************)
UpperCase == <<"A", "B", "C", "D", "E", "F", "G", "H", "I", "J", "K", "L", "M", "N", "O", "P", "Q", "R", "S", "T", "U", "V", "W", "X", "Y", "Z">>
LowerCase == <<"a", "b", "c", "d", "e", "f", "g", "h", "i", "j", "k", "l", "m", "n", "o", "p", "q", "r", "s", "t", "u", "v", "w", "x", "y", "z">>

\* str.lower() of one character
LowerChar(c) ==
    IF \E k \in 1..Len(UpperCase) : UpperCase[k] = c
    THEN LowerCase[CHOOSE k \in 1..Len(UpperCase) : UpperCase[k] = c]
    ELSE c

\* str.lower()
lowerMissing(s) == s
lower(s) == [i \in 1..Len(s) |-> LowerChar(s[i])]

\* sub in s (Python's substring test)
Contains(sub, s) ==
    \E i \in 1..(Len(s) - Len(sub) + 1) : SubSeq(s, i, i + Len(sub) - 1) = sub

(***************************************************************************)
(* Search Client (arxiv_search.py).                                        *)
(***************************************************************************)
QUANTUM_CATEGORIES == <<
    <<"q", "u", "a", "n", "t", "-", "p", "h">>,
    <<"c", "o", "n", "d", "-", "m", "a", "t", ".", "m", "e", "s", "-", "h", "a", "l", "l">>,
    <<"c", "o", "n", "d", "-", "m", "a", "t", ".", "s", "t", "r", "-", "e", "l">>,
    <<"c", "s", ".", "E", "T">>,
    <<"m", "a", "t", "h", "-", "p", "h">>,
    <<"p", "h", "y", "s", "i", "c", "s", ".", "a", "t", "o", "m", "-", "p", "h">>>>

quantum_keywords == <<
    <<"q", "u", "a", "n", "t", "u", "m">>,
    <<"q", "u", "b", "i", "t">>,
    <<"e", "n", "t", "a", "n", "g", "l", "e", "m", "e", "n", "t">>,
    <<"s", "u", "p", "e", "r", "p", "o", "s", "i", "t", "i", "o", "n">>,
    <<"q", "u", "a", "n", "t", "u", "m", " ", "c", "o", "m", "p", "u", "t", "i", "n", "g">>,
    <<"q", "u", "a", "n", "t", "u", "m", " ", "a", "l", "g", "o", "r", "i", "t", "h", "m">>,
    <<"q", "u", "a", "n", "t", "u", "m", " ", "c", "i", "r", "c", "u", "i", "t">>,
    <<"q", "u", "a", "n", "t", "u", "m", " ", "m", "a", "c", "h", "i", "n", "e", " ", "l", "e", "a", "r", "n", "i", "n", "g">>,
    <<"q", "m", "l">>,
    <<"v", "a", "r", "i", "a", "t", "i", "o", "n", "a", "l", " ", "q", "u", "a", "n", "t", "u", "m">>,
    <<"q", "a", "o", "a">>,
    <<"v", "q", "e">>,
    <<"q", "u", "a", "n", "t", "u", "m", " ", "a", "n", "n", "e", "a", "l", "i", "n", "g">>,
    <<"q", "u", "a", "n", "t", "u", "m", " ", "c", "r", "y", "p", "t", "o", "g", "r", "a", "p", "h", "y">>,
    <<"q", "u", "a", "n", "t", "u", "m", " ", "i", "n", "f", "o", "r", "m", "a", "t", "i", "o", "n">>,
    <<"q", "u", "a", "n", "t", "u", "m", " ", "e", "r", "r", "o", "r", " ", "c", "o", "r", "r", "e", "c", "t", "i", "o", "n">>>>

\* _is_quantum_related: an allow-listed category inside one of the paper's
\* category tags, else a keyword inside the lower-cased title + ' ' + abstract
_is_quantum_related(paper) ==
    IF \E c \in 1..Len(paper.categories) :
          \E qc \in 1..Len(QUANTUM_CATEGORIES) :
              Contains(QUANTUM_CATEGORIES[qc], paper.categories[c])
    THEN TRUE
    ELSE LET text == lower(paper.title \o <<" ">> \o paper.abstract)
         IN  \E k \in 1..Len(quantum_keywords) : Contains(quantum_keywords[k], text)

\* the records the relevance pre-filter is checked on
FilterTitles == {
    <<>>,
    <<"Q", "U", "A", "N", "T", "U", "M", " ", "W", "a", "l", "k", "s">>,
    <<"D", "e", "e", "p", " ", "n", "e", "t", "s">>,
    <<"v", "q">>,
    <<"T", "h", "e", " ", "Q", "u", "b", "i", "t">>}

FilterAbstracts == {
    <<>>,
    <<"e">>,
    <<"W", "e", " ", "s", "t", "u", "d", "y", " ", "E", "n", "t", "a", "n", "g", "l", "e", "m", "e", "n", "t", ".">>,
    <<"A", " ", "c", "l", "a", "s", "s", "i", "c", "a", "l", " ", "m", "e", "t", "h", "o", "d">>,
    <<"a", " ", "Q", "A", "O", "A", " ", "a", "n", "s", "a", "t", "z">>}

FilterCategories == {
    <<>>,
    <<<<"q", "u", "a", "n", "t", "-", "p", "h">>>>,
    <<<<"c", "s", ".", "L", "G">>>>,
    <<<<"c", "s", ".", "L", "G">>, <<"c", "s", ".", "E", "T">>>>,
    <<<<"c", "s", ".", "e", "t">>>>,
    <<<<"c", "o", "n", "d", "-", "m", "a", "t", ".", "m", "e", "s", "-", "h", "a", "l", "l", ".", "x">>>>,
    <<<<"q", "u", "a", "n", "t">>>>,
    <<<<"m", "a", "t", "h", ".", "M", "P">>, <<"x", "m", "a", "t", "h", "-", "p", "h", "y", "s", "i", "c", "s">>>>}

FilterPapers == [title : FilterTitles, abstract : FilterAbstracts, categories : FilterCategories]

\* the feed entries the search API may return, by arxiv_id: one related to
\* the domain by a category tag, one by a keyword of its title, one unrelated
FeedIds == 1..MaxFeed

FeedEntry(a) ==
    [arxiv_id |-> a,
     title |-> IF a % 3 = 2 THEN <<"Q", "u", "b", "i", "t">> ELSE <<"N", "e", "t", "s">>,
     abstract |-> <<"n", "e", "w">>,
     categories |-> IF a % 3 = 1 THEN <<<<"c", "s", ".", "L", "G">>, <<"q", "u", "a", "n", "t", "-", "p", "h">>>>
                    ELSE <<<<"c", "s", ".", "L", "G">>>>]

RECURSIVE SeqsUpTo(_, _)
SeqsUpTo(S, n) ==
    IF n = 0 THEN {<<>>}
    ELSE SeqsUpTo(S, n - 1) \cup
         {Append(t, x) : t \in {u \in SeqsUpTo(S, n - 1) : Len(u) = n - 1}, x \in S}

FeedEntries == {FeedEntry(a) : a \in FeedIds}

\* the lists _parse_arxiv_response may yield: overlapping, with repeats
Responses == SeqsUpTo(FeedEntries, MaxResponse)

\* _is_quantum_related on the feed entries, evaluated once per entry
IsQuantumRelatedEntry == [paper \in FeedEntries |-> _is_quantum_related(paper)]

\* what the HTTP call and the XML parse of one search may do
Fetches == {"ok", "network_error", "parse_error"}

_generate_paper_hash(paper) == paper.arxiv_id

\* self.seen_papers.add(paper_id)
RememberNothing(seen, paper_id) == seen
Remember(seen, paper_id) == seen \cup {paper_id}

\* the filter-and-deduplicate loop of search over the parsed papers
RECURSIVE FilterAndDeduplicate(_, _, _, _)
FilterAndDeduplicate(parsed, seen, unique_papers, filter_quantum) ==
    IF parsed = <<>>
    THEN [unique_papers |-> unique_papers, seen_papers |-> seen, raised |-> FALSE]
    ELSE LET paper == Head(parsed)
             paper_id == _generate_paper_hash(paper)
         IN  IF paper_id \in seen
             THEN FilterAndDeduplicate(Tail(parsed), seen, unique_papers, filter_quantum)
             ELSE IF filter_quantum /\ ~IsQuantumRelatedEntry[paper]
             THEN FilterAndDeduplicate(Tail(parsed), seen, unique_papers, filter_quantum)
             ELSE FilterAndDeduplicate(Tail(parsed), Remember(seen, paper_id),
                                       Append(unique_papers, paper), filter_quantum)

\* search: a failed HTTP call returns []; ET.fromstring is called outside the
\* try, so a response that is not well-formed XML makes search raise
search(seen, fetch, parsed, filter_quantum) ==
    CASE fetch = "network_error" ->
             [unique_papers |-> <<>>, seen_papers |-> seen, raised |-> FALSE]
      [] fetch = "parse_error" ->
             [unique_papers |-> <<>>, seen_papers |-> seen, raised |-> TRUE]
      [] OTHER -> FilterAndDeduplicate(parsed, seen, <<>>, filter_quantum)

RECURSIVE CountReturned(_, _)
CountReturned(count, out) ==
    IF out = <<>> THEN count
    ELSE CountReturned([count EXCEPT ![Head(out).arxiv_id] = @ + 1], Tail(out))

NotInMultiple == [category |-> 0, all_papers |-> <<>>]

\* history: the response holds a paper this searcher had seen before the call
Overlap(parsed, seen) == \E k \in 1..Len(parsed) : parsed[k].arxiv_id \in seen

SearchInit ==
    /\ seen_papers = {}
    /\ times_returned = [a \in FeedIds |-> 0]
    /\ output = [op |-> "init", fetch |-> "none", overlap |-> FALSE, papers |-> <<>>,
                 raised |-> FALSE]
    /\ multiple = NotInMultiple

Search ==
    /\ multiple = NotInMultiple
    /\ \E fetch \in Fetches, parsed \in Responses, filter_quantum \in BOOLEAN :
          LET r == search(seen_papers, fetch, parsed, filter_quantum)
          IN  /\ fetch # "ok" => parsed = <<>>
              /\ seen_papers' = r.seen_papers
              /\ output' = [op |-> "search", fetch |-> fetch,
                            overlap |-> Overlap(parsed, seen_papers),
                            papers |-> r.unique_papers, raised |-> r.raised]
              /\ times_returned' = CountReturned(times_returned, r.unique_papers)
              /\ UNCHANGED <<multiple, exceptSearch>>

\* search_multiple_categories: all_papers = []
SearchMultipleCategories ==
    /\ multiple = NotInMultiple
    /\ multiple' = [category |-> 1, all_papers |-> <<>>]
    /\ output' = [op |-> "search_multiple_categories", fetch |-> "none",
                  overlap |-> FALSE, papers |-> <<>>, raised |-> FALSE]
    /\ UNCHANGED <<seen_papers, times_returned, exceptSearch>>

\* search_multiple_categories: one pass of the loop over QUANTUM_CATEGORIES,
\* and the return after the last one; a search that raises ends the call
SearchCategory ==
    /\ multiple # NotInMultiple
    /\ \E fetch \in Fetches, parsed \in Responses :
          LET r == search(seen_papers, fetch, parsed, TRUE)
              all_papers == multiple.all_papers \o r.unique_papers
          IN  /\ fetch # "ok" => parsed = <<>>
              /\ seen_papers' = r.seen_papers
              /\ IF r.raised
                 THEN /\ multiple' = NotInMultiple
                      /\ output' = [output EXCEPT !.raised = TRUE, !.fetch = fetch]
                      /\ UNCHANGED times_returned
                 ELSE IF multiple.category = Len(QUANTUM_CATEGORIES)
                 THEN /\ multiple' = NotInMultiple
                      /\ output' = [output EXCEPT !.papers = all_papers,
                                                   !.overlap = @ \/ Overlap(parsed, seen_papers)]
                      /\ times_returned' = CountReturned(times_returned, all_papers)
                 ELSE /\ multiple' = [category |-> multiple.category + 1,
                                      all_papers |-> all_papers]
                      /\ output' = [output EXCEPT !.overlap = @ \/ Overlap(parsed, seen_papers)]
                      /\ UNCHANGED times_returned
    /\ UNCHANGED exceptSearch

ResetSeenPapers ==
    /\ multiple = NotInMultiple
    /\ seen_papers' = {}
    /\ times_returned' = [a \in FeedIds |-> 0]
    /\ output' = [op |-> "reset_seen_papers", fetch |-> "none", overlap |-> FALSE,
                  papers |-> <<>>, raised |-> FALSE]
    /\ UNCHANGED <<multiple, exceptSearch>>

SearchNext ==
    \/ Search
    \/ SearchMultipleCategories
    \/ SearchCategory
    \/ ResetSeenPapers

(***************************************************************************)
(* The relevance pre-filter applied to one record.                         *)
(***************************************************************************)
FilterIdle ==
    /\ fpaper = [title |-> <<>>, abstract |-> <<>>, categories |-> <<>>]
    /\ fresult = <<>>

FilterInit ==
    /\ fpaper \in FilterPapers
    /\ fresult = <<>>

IsQuantumRelated ==
    /\ fresult = <<>>
    /\ fresult' = <<_is_quantum_related(fpaper)>>
    /\ UNCHANGED <<fpaper, exceptFilter>>

FilterNext ==
    \/ IsQuantumRelated

(***************************************************************************)
(* Summarization Client (summarizer.py): check_quantum_relevance.          *)
(***************************************************************************)
\* the characters str.strip() removes
Whitespace == {" ", "\n", "\t", "\r"}

RECURSIVE lstrip(_)
lstrip(s) == IF s # <<>> /\ Head(s) \in Whitespace THEN lstrip(Tail(s)) ELSE s

RECURSIVE rstrip(_)
rstrip(s) ==
    IF s # <<>> /\ s[Len(s)] \in Whitespace
    THEN rstrip(SubSeq(s, 1, Len(s) - 1))
    ELSE s

\* str.strip()
strip(s) == rstrip(lstrip(s))

\* position of the first sep in s, 0 when there is none
Find(s, sep) ==
    IF \E i \in 1..Len(s) : s[i] = sep
    THEN CHOOSE i \in 1..Len(s) : s[i] = sep /\ \A j \in 1..(i - 1) : s[j] # sep
    ELSE 0

\* s.split(sep) for a one-character sep
RECURSIVE split(_, _)
split(s, sep) ==
    LET i == Find(s, sep)
    IN  IF i = 0 THEN <<s>>
        ELSE <<SubSeq(s, 1, i - 1)>> \o split(SubSeq(s, i + 1, Len(s)), sep)

\* s.split(sep, 1)
split1(s, sep) ==
    LET i == Find(s, sep)
    IN  IF i = 0 THEN <<s>>
        ELSE <<SubSeq(s, 1, i - 1), SubSeq(s, i + 1, Len(s))>>

\* s.startswith(prefix)
startswith(s, prefix) ==
    Len(s) >= Len(prefix) /\ SubSeq(s, 1, Len(prefix)) = prefix

\* A float is kept as an exact decimal sign * num / 10^digits with no
\* trailing zero in the fraction, or as nan, or as a signed infinity.
RECURSIVE Normalize(_)
Normalize(v) ==
    IF v.digits > 0 /\ v.num % 10 = 0
    THEN Normalize([v EXCEPT !.num = @ \div 10, !.digits = @ - 1])
    ELSE IF v.num = 0 THEN [v EXCEPT !.sign = 1] ELSE v

Finite(sign, num, digits) ==
    Normalize([kind |-> "finite", sign |-> sign, num |-> num, digits |-> digits])
Zero == Finite(1, 0, 0)
NaN == [kind |-> "nan", sign |-> 1, num |-> 0, digits |-> 0]
Infinity(sign) == [kind |-> "inf", sign |-> sign, num |-> 0, digits |-> 0]

DecimalDigits == <<"0", "1", "2", "3", "4", "5", "6", "7", "8", "9">>
IsDigit(c) == \E k \in 1..Len(DecimalDigits) : DecimalDigits[k] = c
DigitValue(c) == (CHOOSE k \in 1..Len(DecimalDigits) : DecimalDigits[k] = c) - 1
AllDigits(ds) == \A i \in 1..Len(ds) : IsDigit(ds[i])

RECURSIVE NumberOf(_)
NumberOf(ds) ==
    IF ds = <<>> THEN 0
    ELSE Len(DecimalDigits) * NumberOf(SubSeq(ds, 1, Len(ds) - 1)) + DigitValue(ds[Len(ds)])

\* float(text): [ok, value]; ok = FALSE stands for ValueError
float(text) ==
    LET t == strip(text)
        signed == t # <<>> /\ Head(t) \in {"+", "-"}
        sign == IF signed /\ Head(t) = "-" THEN -1 ELSE 1
        body == IF signed THEN Tail(t) ELSE t
        word == lower(body)
        dot == Find(body, ".")
        whole == IF dot = 0 THEN body ELSE SubSeq(body, 1, dot - 1)
        frac == IF dot = 0 THEN <<>> ELSE SubSeq(body, dot + 1, Len(body))
    IN  IF word = <<"n", "a", "n">>
        THEN [ok |-> TRUE, value |-> NaN]
        ELSE IF word \in {<<"i", "n", "f">>, <<"i", "n", "f", "i", "n", "i", "t", "y">>}
        THEN [ok |-> TRUE, value |-> Infinity(sign)]
        ELSE IF AllDigits(whole) /\ AllDigits(frac) /\ Len(whole) + Len(frac) > 0
        THEN [ok |-> TRUE, value |-> Finite(sign, NumberOf(whole \o frac), Len(frac))]
        ELSE [ok |-> FALSE, value |-> Zero]

RECURSIVE Pow10(_)
Pow10(n) == IF n = 0 THEN 1 ELSE Len(DecimalDigits) * Pow10(n - 1)

\* score >= threshold
MeetsThresholdStrictly(score, threshold) ==
    CASE score.kind = "nan" \/ threshold.kind = "nan" -> FALSE
      [] score.kind = "inf" -> score.sign = 1 /\ threshold # score
      [] threshold.kind = "inf" -> threshold.sign = -1
      [] OTHER ->
            score.sign * score.num * Pow10(threshold.digits)
                > threshold.sign * threshold.num * Pow10(score.digits)
MeetsThreshold(score, threshold) ==
    CASE score.kind = "nan" \/ threshold.kind = "nan" -> FALSE
      [] score.kind = "inf" -> score.sign = 1 \/ threshold = score
      [] threshold.kind = "inf" -> threshold.sign = -1
      [] OTHER ->
            score.sign * score.num * Pow10(threshold.digits)
                >= threshold.sign * threshold.num * Pow10(score.digits)

SCORE == <<"S", "C", "O", "R", "E", ":">>
EXPLANATION == <<"E", "X", "P", "L", "A", "N", "A", "T", "I", "O", "N", ":">>
TOPICS == <<"T", "O", "P", "I", "C", "S", ":">>

\* "for line in lines": acc is [score, explanation, topics]
RECURSIVE ParseLines(_, _)
ParseLines(lines, acc) ==
    IF lines = <<>> THEN acc
    ELSE
        LET line == Head(lines)
            next ==
                IF startswith(line, SCORE)
                THEN LET f == float(strip(split(line, ":")[2]))
                     IN  [acc EXCEPT !.score = IF f.ok THEN f.value ELSE Zero]
                ELSE IF startswith(line, EXPLANATION)
                THEN [acc EXCEPT !.explanation = strip(split1(line, ":")[2])]
                ELSE IF startswith(line, TOPICS)
                THEN LET topics_str == strip(split1(line, ":")[2])
                         parts == split(topics_str, ",")
                     IN  IF lower(topics_str) # <<"n", "o", "n", "e">>
                         THEN [acc EXCEPT !.topics =
                                    [i \in 1..Len(parts) |-> strip(parts[i])]]
                         ELSE acc
                ELSE acc
        IN  ParseLines(Tail(lines), next)

\* the dictionary of the "except Exception" branch; the text of the
\* exception is kept as "e"
ErrorResultFailsOpen ==
    [is_relevant |-> TRUE, relevance_score |-> Zero,
     explanation |-> <<"E", "r", "r", "o", "r", ":", " ", "e">>,
     topics |-> <<>>, raw_response |-> <<>>, raised |-> FALSE]
ErrorResultReraised ==
    [is_relevant |-> FALSE, relevance_score |-> Zero, explanation |-> <<>>,
     topics |-> <<>>, raw_response |-> <<>>, raised |-> TRUE]
ErrorResult ==
    [is_relevant |-> FALSE, relevance_score |-> Zero,
     explanation |-> <<"E", "r", "r", "o", "r", ":", " ", "e">>,
     topics |-> <<>>, raw_response |-> <<>>, raised |-> FALSE]

\* What the chat-completion call does: "transport" raises, "no_content"
\* answers with message.content = None, "none" answers with text.
ClientFaults == {"none", "transport", "no_content"}

check_quantum_relevance(fault, text, threshold) ==
    IF fault # "none" THEN ErrorResult
    ELSE
        LET content == strip(text)
            parsed == ParseLines(split(content, "\n"),
                          [score |-> Zero, explanation |-> <<>>, topics |-> <<>>])
        IN  [is_relevant |-> MeetsThreshold(parsed.score, threshold),
             relevance_score |-> parsed.score,
             explanation |-> parsed.explanation,
             topics |-> parsed.topics,
             raw_response |-> content,
             raised |-> FALSE]

\* ---- the responses the specification tries --------------------------------
\* Each case is the text that follows a label, or the absence of the line;
\* numeric says whether the text is a float literal, and expect is the
\* value the line stands for, written down by hand.
ScoreCases == {
    [present |-> TRUE, text |-> <<" ", "0", ".", "8", "5">>, numeric |-> TRUE, expect |-> Finite(1, 85, 2)],
    [present |-> TRUE, text |-> <<" ", "o", "o", "p", "s">>, numeric |-> FALSE, expect |-> Zero],
    [present |-> TRUE, text |-> <<" ", "0", ".", "6">>, numeric |-> TRUE, expect |-> Finite(1, 6, 1)],
    [present |-> TRUE, text |-> <<" ", "0", ".", "5", "9">>, numeric |-> TRUE, expect |-> Finite(1, 59, 2)],
    [present |-> TRUE, text |-> <<"1">>, numeric |-> TRUE, expect |-> Finite(1, 1, 0)],
    [present |-> TRUE, text |-> <<" ", "0", ".", "8", "5", "0", " ">>, numeric |-> TRUE, expect |-> Finite(1, 85, 2)],
    [present |-> TRUE, text |-> <<" ", "[", "0", ".", "9", "]">>, numeric |-> FALSE, expect |-> Zero],
    [present |-> TRUE, text |-> <<>>, numeric |-> FALSE, expect |-> Zero],
    [present |-> TRUE, text |-> <<" ", "0", ".", "9", "/", "1", ".", "0">>, numeric |-> FALSE, expect |-> Zero],
    [present |-> TRUE, text |-> <<" ", ".", "5">>, numeric |-> TRUE, expect |-> Finite(1, 5, 1)],
    [present |-> TRUE, text |-> <<" ", "-", "1">>, numeric |-> TRUE, expect |-> Finite(-1, 1, 0)],
    [present |-> TRUE, text |-> <<" ", "0", ".", "0">>, numeric |-> TRUE, expect |-> Zero],
    [present |-> TRUE, text |-> <<" ", "n", "a", "n">>, numeric |-> TRUE, expect |-> NaN],
    [present |-> TRUE, text |-> <<" ", "i", "n", "f">>, numeric |-> TRUE, expect |-> Infinity(1)],
    [present |-> FALSE, text |-> <<>>, numeric |-> FALSE, expect |-> Zero]}

ExplanationCases == {
    [present |-> TRUE, text |-> <<" ", "s", "t", "r", "o", "n", "g", " ", "q", "u", "a", "n", "t", "u", "m", " ", "f", "o", "c", "u", "s">>, expect |-> <<"s", "t", "r", "o", "n", "g", " ", "q", "u", "a", "n", "t", "u", "m", " ", "f", "o", "c", "u", "s">>],
    [present |-> TRUE, text |-> <<" ", "b", "a", "d">>, expect |-> <<"b", "a", "d">>],
    [present |-> TRUE, text |-> <<" ", "a", ":", " ", "b", " ">>, expect |-> <<"a", ":", " ", "b">>],
    [present |-> TRUE, text |-> <<>>, expect |-> <<>>],
    [present |-> FALSE, text |-> <<>>, expect |-> <<>>]}

TopicsCases == {
    [present |-> TRUE, text |-> <<" ", "q", "u", "b", "i", "t", ",", " ", "e", "n", "t", "a", "n", "g", "l", "e", "m", "e", "n", "t">>, expect |-> <<<<"q", "u", "b", "i", "t">>, <<"e", "n", "t", "a", "n", "g", "l", "e", "m", "e", "n", "t">>>>],
    [present |-> TRUE, text |-> <<" ", "N", "o", "n", "e">>, expect |-> <<>>],
    [present |-> TRUE, text |-> <<" ", "n", "o", "n", "e">>, expect |-> <<>>],
    [present |-> TRUE, text |-> <<" ", "q", "m", "l">>, expect |-> <<<<"q", "m", "l">>>>],
    [present |-> TRUE, text |-> <<" ", "v", "q", "e", " ", ",", "q", "a", "o", "a">>, expect |-> <<<<"v", "q", "e">>, <<"q", "a", "o", "a">>>>],
    [present |-> FALSE, text |-> <<>>, expect |-> <<>>]}

\* threshold: float = 0.6
DefaultThreshold == Finite(1, 6, 1)
Thresholds == {DefaultThreshold, Finite(1, 85, 2)}

\* How the labelled lines are laid out in the response:
\*   plain     the three lines in the order of the prompt
\*   reversed  the three lines in the opposite order
\*   preface   a sentence and a blank line first, a newline at the end
\*   padded    blank space around the plain layout
\*   crlf      lines ended by "\r\n"
\*   indented  a heading, then every line indented by one space
Layouts == {"plain", "reversed", "preface", "padded", "crlf", "indented"}

RelevanceCalls ==
    [score : ScoreCases, explanation : ExplanationCases, topics : TopicsCases,
     layout : Layouts, threshold : Thresholds, fault : {"none"}]
    \cup
    [score : ScoreCases, explanation : ExplanationCases, topics : TopicsCases,
     layout : {"plain"}, threshold : {DefaultThreshold},
     fault : ClientFaults \ {"none"}]

LabelledLine(label, case) == IF case.present THEN <<label \o case.text>> ELSE <<>>
LabelledLines(call) ==
    LabelledLine(SCORE, call.score)
        \o LabelledLine(EXPLANATION, call.explanation)
        \o LabelledLine(TOPICS, call.topics)

Reverse(s) == [i \in 1..Len(s) |-> s[Len(s) + 1 - i]]

RECURSIVE Join(_, _)
Join(lines, sep) ==
    IF lines = <<>> THEN <<>>
    ELSE IF Len(lines) = 1 THEN lines[1]
    ELSE lines[1] \o sep \o Join(Tail(lines), sep)

\* message.content of the response
ResponseText(call) ==
    LET lines == LabelledLines(call)
    IN  CASE call.layout = "plain" -> Join(lines, <<"\n">>)
          [] call.layout = "reversed" -> Join(Reverse(lines), <<"\n">>)
          [] call.layout = "preface" ->
                Join(<<<<"S", "u", "r", "e", ".">>, <<>>>> \o lines, <<"\n">>) \o <<"\n">>
          [] call.layout = "padded" ->
                <<"\n", " ">> \o Join(lines, <<"\n">>) \o <<" ", "\n">>
          [] call.layout = "crlf" -> Join(lines, <<"\r", "\n">>)
          [] call.layout = "indented" ->
                Join(<<<<"R", "e", "s", "u", "l", "t", ":">>>>
                        \o [i \in 1..Len(lines) |-> <<" ">> \o lines[i]],
                     <<"\n">>)

NoRelevanceCall ==
    [score |-> [present |-> FALSE, text |-> <<>>, numeric |-> FALSE, expect |-> Zero],
     explanation |-> [present |-> FALSE, text |-> <<>>, expect |-> <<>>],
     topics |-> [present |-> FALSE, text |-> <<>>, expect |-> <<>>],
     layout |-> "plain", threshold |-> DefaultThreshold, fault |-> "none"]

RelevanceIdle ==
    /\ rcall = NoRelevanceCall
    /\ rresult = <<>>

RelevanceInit ==
    /\ rcall \in RelevanceCalls
    /\ rresult = <<>>

CheckQuantumRelevance ==
    /\ rresult = <<>>
    /\ rresult' = <<check_quantum_relevance(rcall.fault, ResponseText(rcall), rcall.threshold)>>
    /\ UNCHANGED <<rcall, exceptRelevance>>

RelevanceNext ==
    \/ CheckQuantumRelevance

(***************************************************************************)
(* Extraction Client (pdf_ocr.py).                                         *)
(***************************************************************************)
\* What the vision model reads on the pages of the document, page k at
\* position k; the response carries it with white space around it.
PageTexts == <<
    <<"o", "n", "e">>,
    <<"t", "w", "o">>,
    <<"t", "h", "r", "e", "e">>,
    <<"f", "o", "u", "r">>,
    <<"f", "i", "v", "e">>,
    <<"s", "i", "x">>,
    <<"s", "e", "v", "e", "n">>,
    <<"e", "i", "g", "h", "t">>,
    <<"n", "i", "n", "e">>,
    <<"t", "e", "n">>,
    <<"e", "l", "e", "v", "e", "n">>,
    <<"t", "w", "e", "l", "v", "e">>>>
PageContent(k) == <<" ">> \o PageTexts[k] \o <<"\n">>

\* the OCR call of one page: answers with text or raises
OcrOutcomes == {"text", "raise"}

\* _extract_text_from_image: the stripped content, "" on any exception
_extract_text_from_imageNoCatch(content, outcome) ==
    IF outcome = "raise"
    THEN [text |-> <<>>, raised |-> TRUE]
    ELSE [text |-> strip(content), raised |-> FALSE]
_extract_text_from_image(content, outcome) ==
    IF outcome = "raise"
    THEN [text |-> <<>>, raised |-> FALSE]
    ELSE [text |-> strip(content), raised |-> FALSE]

\* pdf_to_images: the number of images convert_from_path renders with
\* first_page=1, last_page=max_pages; [] when the conversion raises
pdf_to_images(pdf_pages, limit, fault) ==
    IF fault THEN 0
    ELSE IF limit = None \/ pdf_pages <= limit THEN pdf_pages
    ELSE limit

\* str(i) of a natural number
RECURSIVE str(_)
str(i) ==
    IF i < Len(DecimalDigits) THEN <<DecimalDigits[i + 1]>>
    ELSE str(i \div Len(DecimalDigits)) \o <<DecimalDigits[(i % Len(DecimalDigits)) + 1]>>

\* f"page_{i}"
PageKeyFromZero(i) == <<"p", "a", "g", "e", "_">> \o str(i - 1)
PageKey(i) == <<"p", "a", "g", "e", "_">> \o str(i)

\* int(x.split("_")[1])
PageIndex(x) == NumberOf(split(x, "_")[2])

\* the order of two strings of digits and "_" as Python compares str
RECURSIVE TextLess(_, _)
TextLess(x, y) ==
    IF y = <<>> THEN FALSE
    ELSE IF x = <<>> THEN TRUE
    ELSE IF Head(x) # Head(y)
    THEN IF IsDigit(Head(x)) /\ IsDigit(Head(y))
         THEN DigitValue(Head(x)) < DigitValue(Head(y))
         ELSE IsDigit(Head(x))
    ELSE TextLess(Tail(x), Tail(y))

\* the order sorted() puts two keys in: key(x) < key(y)
KeyLessAsText(x, y) == TextLess(x, y)
KeyLess(x, y) == PageIndex(x) < PageIndex(y)

\* sorted(keys, key=...): a stable sort
RECURSIVE InsertKey(_, _)
InsertKey(x, s) ==
    IF s = <<>> THEN <<x>>
    ELSE IF KeyLess(x, Head(s)) THEN <<x>> \o s
    ELSE <<Head(s)>> \o InsertKey(x, Tail(s))

RECURSIVE sorted(_)
sorted(keys) ==
    IF keys = <<>> THEN <<>>
    ELSE InsertKey(keys[Len(keys)], sorted(SubSeq(keys, 1, Len(keys) - 1)))

\* A dict is the sequence of its <<key, value>> items in insertion order.
Keys(d) == [j \in 1..Len(d) |-> d[j][1]]
Item(d, key) == d[CHOOSE j \in 1..Len(d) : d[j][1] = key][2]

PageBreak == <<"\n", "\n", "-", "-", "-", " ", "P", "a", "g", "e", " ", "B", "r", "e", "a", "k", " ", "-", "-", "-", "\n", "\n">>

\* get_full_text
get_full_text(extracted) ==
    LET pages == sorted(Keys(extracted))
    IN  Join([j \in 1..Len(pages) |-> Item(extracted, pages[j])], PageBreak)

\* the orders in which a mapping handed to get_full_text holds its items
DictOrders == {"inserted", "reversed"}

\* max_pages of a call: no limit, a limit below and one at the largest document
PageLimits == {None, 3, MaxPages}

\* what requests.get and raise_for_status of download_pdf may do
Downloads == {"ok", "network_error", "http_error", "timeout"}

\* download_pdf: the path of the temporary file; any exception is printed
\* and raised again
download_pdf(outcome) ==
    IF outcome = "ok"
    THEN [path |-> "tmp.pdf", raised |-> FALSE]
    ELSE [path |-> "", raised |-> TRUE]

OCRInit ==
    /\ ocr_pc = "idle"
    /\ download = "none"
    /\ pdf = [pages |-> 0, max_pages |-> None]
    /\ images = 0
    /\ extracted_text = <<>>
    /\ page_calls = <<>>
    /\ full_text = <<>>
    /\ joined_order = "inserted"

\* extract_text_from_url up to its try block: download_pdf is called
\* outside it, so what download_pdf raises leaves extract_text_from_url
ExtractTextFromUrl ==
    /\ ocr_pc = "idle"
    /\ \E outcome \in Downloads :
          /\ download' = outcome
          /\ ocr_pc' = IF download_pdf(outcome).raised THEN "url_raised" ELSE "downloaded"
    /\ UNCHANGED <<pdf, images, extracted_text, page_calls, full_text, joined_order,
                   exceptOCR>>

\* extract_text_from_pdf up to the loop: "if not images: return {}"; called
\* on a local file or by extract_text_from_url on the downloaded one
ExtractTextFromPdf ==
    /\ ocr_pc \in {"idle", "downloaded"}
    /\ \E pdf_pages \in 0..MaxPages, limit \in PageLimits, fault \in BOOLEAN :
          LET n == pdf_to_images(pdf_pages, limit, fault)
          IN  /\ pdf' = [pages |-> pdf_pages, max_pages |-> limit]
              /\ images' = n
              /\ ocr_pc' = IF n = 0 THEN "returned" ELSE "loop"
    /\ UNCHANGED <<download, extracted_text, page_calls, full_text, joined_order,
                   exceptOCR>>

\* one pass of "for i, image in enumerate(images, 1)"; the pass of the last
\* image returns extracted_text
ExtractTextFromImage ==
    /\ ocr_pc = "loop"
    /\ \E outcome \in OcrOutcomes :
          LET i == Len(page_calls) + 1
              r == _extract_text_from_image(PageContent(i), outcome)
          IN  /\ page_calls' = Append(page_calls, outcome)
              /\ IF r.raised
                 THEN /\ ocr_pc' = "raised"
                      /\ UNCHANGED extracted_text
                 ELSE /\ extracted_text' = Append(extracted_text, <<PageKey(i), r.text>>)
                      /\ ocr_pc' = IF i = images THEN "returned" ELSE "loop"
    /\ UNCHANGED <<download, pdf, images, full_text, joined_order, exceptOCR>>

\* get_full_text on the mapping extract_text_from_pdf returned, or on a dict
\* that holds the same items in the opposite order
GetFullText ==
    /\ ocr_pc = "returned"
    /\ \E order \in DictOrders :
          /\ joined_order' = order
          /\ full_text' = get_full_text(IF order = "inserted" THEN extracted_text
                                        ELSE Reverse(extracted_text))
    /\ ocr_pc' = "joined"
    /\ UNCHANGED <<download, pdf, images, extracted_text, page_calls, exceptOCR>>

OCRNext ==
    \/ ExtractTextFromUrl
    \/ ExtractTextFromPdf
    \/ ExtractTextFromImage
    \/ GetFullText

(***************************************************************************)
(* Ingestion Pipeline: one batch run, ArxivCrawler.process_papers          *)
(* (crawler.py) or the process command (main.py, cmd_process).  Both run   *)
(* the same loop; they differ in what they count.                          *)
(***************************************************************************)
Drivers == {"crawler", "main"}

\* Config.OCR_API_KEY and Config.SUMMARY_API_KEY: set, or the empty string
Credentials == [ocr : BOOLEAN, summary : BOOLEAN]

\* "if self.config.OCR_API_KEY and self.config.SUMMARY_API_KEY:" builds both
\* clients; otherwise both stay None
setup_each(ocr_api_key, summary_api_key) ==
    [ocr_processor |-> ocr_api_key, summarizer |-> summary_api_key]
setup_components(ocr_api_key, summary_api_key) ==
    [ocr_processor |-> ocr_api_key /\ summary_api_key,
     summarizer |-> ocr_api_key /\ summary_api_key]

\* the configuration after ArxivCrawler.__init__ / setup_components
Configured(ocr_api_key, summary_api_key) ==
    /\ ocr_key = ocr_api_key
    /\ summary_key = summary_api_key
    /\ ocr_processor = setup_components(ocr_api_key, summary_api_key).ocr_processor
    /\ summarizer = setup_components(ocr_api_key, summary_api_key).summarizer

\* the papers table before the batch: n unprocessed rows stored by earlier
\* searches, a later row being the more recently published one
StoredPapers(n) ==
    [i \in 1..n |->
        [id |-> i, arxiv_id |-> i, title |-> "t1", published |-> i, processed |-> FALSE]]

\* What happens around one paper: the answer to the relevance prompt, the
\* download of the PDF, the statements of insert_summary, the export.
RelevanceResponses ==
    {[fault |-> "transport", text |-> <<>>],
     [fault |-> "none", text |-> SCORE \o <<" ", "0", ".", "2">>],
     [fault |-> "none", text |-> SCORE \o <<" ", "0", ".", "9">>]}
SaveFaults == {"none", "commit"}
CallOutcomes == {"ok", "raise"}

\* what the chat-completion call of a summary does: "transport" raises
SummarizerFaults == {"none", "transport"}

\* The passes in which both summary calls are answered; the text of a summary
\* decides nothing in the loop.
PaperEnvs ==
    [response : RelevanceResponses, download : CallOutcomes,
     methodology : {"none"}, contributions : {"none"},
     save : SaveFaults, export : CallOutcomes]
\* the passes in which a summary call may fail as well
SummaryFaultEnvs ==
    [response : RelevanceResponses, download : CallOutcomes,
     methodology : SummarizerFaults, contributions : SummarizerFaults,
     save : SaveFaults, export : CallOutcomes]

\* summarize_methodology: the answer, or in "except Exception" the string
\* f"Error: Unable to generate summary - {str(e)}"
MethodologyError == "Error: Unable to generate summary - e"
summarize_methodologyNoCatch(fault) ==
    [text |-> "methodology", raised |-> fault # "none"]
summarize_methodology(fault) ==
    [text |-> IF fault = "none" THEN "methodology" ELSE MethodologyError,
     raised |-> FALSE]

\* extract_key_contributions: the answer, or in "except Exception" the string
\* "Error: Unable to extract contributions"
ContributionsError == "Error: Unable to extract contributions"
extract_key_contributions(fault) ==
    [text |-> IF fault = "none" THEN "contributions" ELSE ContributionsError,
     raised |-> FALSE]

\* how the external calls of a pass that were made ended
PassFaults(relevance, methodology, contributions) ==
    [relevance |-> relevance, methodology |-> methodology,
     contributions |-> contributions]

\* the calls of the try block for a relevant paper, up to the save
CallsToExtraction ==
    <<"check_quantum_relevance", "extract_text_from_url", "get_full_text">>
CallsToSave ==
    CallsToExtraction
        \o <<"summarize_methodology", "extract_key_contributions", "insert_summary">>

\* The try block of the loop for one paper, on tables db.  branch names the
\* way the block was left; raised: an exception left it; calls: the calls of
\* the pass in the order they were made.
PaperBodyGiven(db, paper, env, relevance) ==
        IF ~relevance.is_relevant
        THEN LET r == insert_summary(db, paper.id, "Not relevant to quantum computing",
                                     "N/A", env.save)
             IN  [db |-> r.db, raised |-> FALSE,
                  branch |-> IF r.ret # None THEN "not_relevant" ELSE "not_relevant_unsaved",
                  is_relevant |-> FALSE,
                  calls |-> <<"check_quantum_relevance", "insert_summary">>,
                  faults |-> PassFaults(env.response.fault, "none", "none")]
        ELSE IF env.download = "raise"
        THEN \* extract_text_from_url: download_pdf re-raises
             [db |-> db, raised |-> TRUE, branch |-> "extraction_raises",
              is_relevant |-> TRUE,
              calls |-> <<"check_quantum_relevance", "extract_text_from_url">>,
              faults |-> PassFaults(env.response.fault, "none", "none")]
        ELSE IF summarize_methodology(env.methodology).raised
        THEN [db |-> db, raised |-> TRUE, branch |-> "summary_raises",
              is_relevant |-> TRUE,
              calls |-> Append(CallsToExtraction, "summarize_methodology"),
              faults |-> PassFaults(env.response.fault, env.methodology, "none")]
        ELSE LET methodology_summary == summarize_methodology(env.methodology).text
                 key_contributions == extract_key_contributions(env.contributions).text
                 made == PassFaults(env.response.fault, env.methodology, env.contributions)
                 r == insert_summary(db, paper.id, methodology_summary,
                                     key_contributions, env.save)
             IN  IF r.ret = None
                 THEN [db |-> r.db, raised |-> FALSE, branch |-> "unsaved",
                       is_relevant |-> TRUE, calls |-> CallsToSave, faults |-> made]
                 ELSE IF env.export = "raise"
                 THEN [db |-> r.db, raised |-> TRUE, branch |-> "export_raises",
                       is_relevant |-> TRUE, calls |-> Append(CallsToSave, "export_paper"),
                       faults |-> made]
                 ELSE [db |-> r.db, raised |-> FALSE, branch |-> "summarized",
                       is_relevant |-> TRUE, calls |-> Append(CallsToSave, "export_paper"),
                       faults |-> made]

\* relevance = self.summarizer.check_quantum_relevance(title, abstract), the
\* first statement of the try block
PaperBody(db, paper, env) ==
    PaperBodyGiven(db, paper, env,
                   check_quantum_relevance(env.response.fault, env.response.text,
                                           DefaultThreshold))

\* the counters a block that ended without exception changes
Counted(counters, branch, who) ==
    CASE branch = "summarized" -> [counters EXCEPT !.processed = @ + 1]
      [] branch \in {"not_relevant", "not_relevant_unsaved"} /\ who = "main" ->
            [counters EXCEPT !.skipped = @ + 1]
      [] branch = "unsaved" /\ who = "main" -> [counters EXCEPT !.errors = @ + 1]
      [] OTHER -> counters

\* except Exception as e: count the error and go on with the next paper
PaperErrorReraised(counters) == [counters |-> counters, raised |-> TRUE]
PaperError(counters) ==
    [counters |-> [counters EXCEPT !.errors = @ + 1], raised |-> FALSE]

NoCounters == [processed |-> 0, skipped |-> 0, errors |-> 0]
NoPass ==
    [id |-> 0, is_relevant |-> FALSE, calls |-> <<>>, ended |-> "none", retry |-> FALSE,
     faults |-> PassFaults("none", "none", "none")]

PipelineIdle ==
    /\ pipe_pc = "idle"
    /\ driver = "crawler"
    /\ Configured(TRUE, TRUE)
    /\ batch = <<>>
    /\ outcomes = <<>>
    /\ stats = NoCounters
    /\ batch_size = MaxBatch
    /\ runs = 0
    /\ last_pass = NoPass
    /\ interrupted = {}

\* the database and the configuration a batch run starts from
PipelineInit ==
    /\ \E n \in 0..(MaxBatch + 1) : papers = StoredPapers(n)
    /\ summaries = <<>>
    /\ last = [op |-> "init", paper |-> NoPaper, paper_id |-> 0, limit |-> 0,
               pre |-> NoRow,
               nsum |-> 0, ret |-> None, raised |-> FALSE]
    /\ rows = <<>>
    /\ inserted = [a \in ArxivIds |-> NoPaper]
    /\ summarized = {}
    /\ pipe_pc = "idle"
    /\ driver \in Drivers
    /\ \E key \in Credentials : Configured(key.ocr, key.summary)
    /\ batch = <<>>
    /\ outcomes = <<>>
    /\ stats = NoCounters
    /\ batch_size = MaxBatch
    /\ runs = 0
    /\ last_pass = NoPass
    /\ interrupted = {}

\* process_papers / cmd_process up to the loop
ProcessPapers ==
    /\ pipe_pc = "idle"
    /\ IF ~ocr_processor \/ ~summarizer
       THEN \* crawler: return 0; main: sys.exit(1)
            /\ pipe_pc' = IF driver = "crawler" THEN "done" ELSE "exited"
            /\ UNCHANGED batch
       ELSE \E result \in get_unprocessed_papers(papers, batch_size) :
                /\ batch' = result
                /\ pipe_pc' = IF result = <<>> THEN "done" ELSE "loop"
    /\ runs' = runs + 1
    /\ UNCHANGED <<papers, summaries, driver, configVars, outcomes, stats, batch_size,
                   last_pass, interrupted, exceptPipeline>>

\* one pass of "for i, paper in enumerate(papers, 1)"; the pass of the last
\* paper ends the batch
PaperPass(envs) ==
    /\ pipe_pc = "loop"
    /\ \E env \in envs, i \in {Len(outcomes) + 1} :
        \E body \in {PaperBody(Db, batch[i], env)} :
          LET handled == PaperError(stats)
          IN  /\ papers' = body.db.papers
              /\ summaries' = body.db.summaries
              /\ outcomes' = Append(outcomes, body.branch)
              /\ last_pass' = [id |-> batch[i].id, is_relevant |-> body.is_relevant,
                               calls |-> body.calls, ended |-> "returned",
                               retry |-> batch[i].id \in interrupted,
                               faults |-> body.faults]
              /\ interrupted' = interrupted \ {batch[i].id}
              /\ stats' = IF body.raised THEN handled.counters
                             ELSE Counted(stats, body.branch, driver)
              /\ pipe_pc' = IF body.raised /\ handled.raised THEN "raised"
                            ELSE IF i = Len(batch) THEN "done"
                            ELSE "loop"
    /\ UNCHANGED <<driver, configVars, batch, batch_size, runs, exceptPipeline>>

ProcessPaper == PaperPass(PaperEnvs)

PipelineNext ==
    \/ ProcessPapers
    \/ ProcessPaper

(***************************************************************************)
(* The life cycle of papers: batch run after batch run on one database.    *)
(***************************************************************************)
\* the database, the loop and the batch size the runs start from
LifecycleInit ==
    /\ \E n \in 1..MaxPapers : papers = StoredPapers(n)
    /\ summaries = <<>>
    /\ last = [op |-> "init", paper |-> NoPaper, paper_id |-> 0, limit |-> 0,
               pre |-> NoRow,
               nsum |-> 0, ret |-> None, raised |-> FALSE]
    /\ rows = <<>>
    /\ inserted = [a \in ArxivIds |-> NoPaper]
    /\ summarized = {}
    /\ pipe_pc = "idle"
    /\ driver \in Drivers
    /\ Configured(TRUE, TRUE)
    /\ batch = <<>>
    /\ outcomes = <<>>
    /\ stats = NoCounters
    /\ batch_size \in 1..MaxPapers
    /\ runs = 0
    /\ last_pass = NoPass
    /\ interrupted = {}

\* The run has returned and the next one is about to be called: the next
\* cycle of the crawler, whose self.stats keeps its errors, or the next
\* process command, whose counters are local.
RunAgain ==
    /\ pipe_pc = "done"
    /\ runs < MaxRuns
    /\ pipe_pc' = "idle"
    /\ batch' = <<>>
    /\ outcomes' = <<>>
    /\ stats' = IF driver = "crawler" THEN [stats EXCEPT !.processed = 0] ELSE NoCounters
    /\ UNCHANGED <<papers, summaries, driver, configVars, batch_size, runs, last_pass,
                   interrupted, exceptPipeline>>

\* search_new_papers between two runs: the searches return papers that are
\* not stored yet, published before or after every stored one, and each is
\* saved with insert_paper
FoundPaper(tbl, newer) ==
    [arxiv_id |-> Len(tbl) + 1, title |-> "t1",
     published |-> IF newer THEN Len(tbl) + 1 ELSE 0 - Len(tbl)]

SearchNewPapers ==
    /\ pipe_pc = "idle"
    /\ Len(papers) < MaxPapers
    /\ \E newer \in BOOLEAN :
          LET r == insert_paper(Db, FoundPaper(papers, newer), FALSE)
          IN  /\ r.ret # None
              /\ papers' = r.db.papers
              /\ summaries' = r.db.summaries
    /\ UNCHANGED <<pipelineVars, exceptPipeline>>

\* The places between the extraction of a paper and the commit of its
\* summary where the process can stop, with the calls made until then.
StopPoints ==
    {[at |-> "extracted", insert_begun |-> FALSE, calls |-> CallsToExtraction],
     [at |-> "summarized", insert_begun |-> FALSE,
      calls |-> CallsToExtraction \o <<"summarize_methodology", "extract_key_contributions">>],
     [at |-> "insert_uncommitted", insert_begun |-> TRUE, calls |-> CallsToSave]}

\* What the database file holds when it is opened again after the process
\* stopped inside a transaction: SQLite rolls the uncommitted work back.
RecoveredKeepsWork(committed, working) == working
Recovered(committed, working) == Rollback(committed, working)

\* the process stops (kill, power loss) in the pass of a relevant paper
ProcessStops ==
    /\ pipe_pc = "loop"
    /\ \E point \in StopPoints :
          LET paper == batch[Len(outcomes) + 1]
              working == IF point.insert_begun
                         THEN insert_summary(Db, paper.id, "methodology",
                                             "contributions", "none").db
                         ELSE Db
              db == Recovered(Db, working)
          IN  /\ papers' = db.papers
              /\ summaries' = db.summaries
              /\ last_pass' = [id |-> paper.id, is_relevant |-> TRUE,
                               calls |-> point.calls, ended |-> "stopped",
                               retry |-> paper.id \in interrupted,
                               faults |-> PassFaults("none", "none", "none")]
              /\ interrupted' = interrupted \cup {paper.id}
    /\ pipe_pc' = "stopped"
    /\ UNCHANGED <<driver, configVars, batch, outcomes, stats, batch_size, runs,
                   exceptPipeline>>

\* the program is started again on the same database
Restart ==
    /\ pipe_pc = "stopped"
    /\ runs < MaxRuns
    /\ pipe_pc' = "idle"
    /\ batch' = <<>>
    /\ outcomes' = <<>>
    /\ stats' = NoCounters
    /\ UNCHANGED <<papers, summaries, driver, configVars, batch_size, runs, last_pass,
                   interrupted, exceptPipeline>>

LifecycleNext ==
    \/ ProcessPapers
    \/ ProcessPaper
    \/ RunAgain
    \/ SearchNewPapers
    \/ ProcessStops
    \/ Restart

(***************************************************************************)
(* Batch runs in which the summary calls may fail too.                     *)
(***************************************************************************)
ProcessPaperSummaryFaults == PaperPass(SummaryFaultEnvs)

SummaryFaultsNext ==
    \/ ProcessPapers
    \/ ProcessPaperSummaryFaults
    \/ RunAgain

(***************************************************************************)
(* Startup with any credentials: ArxivCrawler.__init__ (crawler.py) and    *)
(* setup_components (main.py) read the two keys once; searches and batch   *)
(* runs follow on one database.                                            *)
(***************************************************************************)
\* the database and the configuration after construction
StartupInit ==
    /\ \E n \in 0..(MaxPapers - 1) : papers = StoredPapers(n)
    /\ summaries = <<>>
    /\ last = [op |-> "init", paper |-> NoPaper, paper_id |-> 0, limit |-> 0,
               pre |-> NoRow,
               nsum |-> 0, ret |-> None, raised |-> FALSE]
    /\ rows = <<>>
    /\ inserted = [a \in ArxivIds |-> NoPaper]
    /\ summarized = {}
    /\ pipe_pc = "idle"
    /\ driver \in Drivers
    /\ \E key \in Credentials : Configured(key.ocr, key.summary)
    /\ batch = <<>>
    /\ outcomes = <<>>
    /\ stats = NoCounters
    /\ batch_size \in 1..MaxPapers
    /\ runs = 0
    /\ last_pass = NoPass
    /\ interrupted = {}

StartupNext ==
    \/ SearchNewPapers
    \/ ProcessPapers
    \/ ProcessPaper
    \/ RunAgain

(***************************************************************************)
(* Collection summary: steps 2 and 3 of run_cycle and                      *)
(* export_collection_summary (crawler.py).                                 *)
(***************************************************************************)
\* search_papers(processed_only=True, limit=1000)
CollectionLimit == 1000

\* SELECT * FROM papers WHERE 1=1 [AND processed = 1] ORDER BY published DESC
\* LIMIT ?
search_papers(tbl, processed_only, limit) ==
    OrderedLists(tbl, {i \in 1..Len(tbl) : processed_only => tbl[i].processed}, limit)

\* SELECT p.*, s.methodology_summary, ... FROM papers p LEFT JOIN summaries s
\* ON p.id = s.paper_id WHERE p.id = ?, fetchone(): the paper with one of its
\* summaries, or with NULL when it has none
get_paper_with_summary(db, paper_id) ==
    LET joined == {j \in 1..Len(db.summaries) : db.summaries[j].paper_id = paper_id}
    IN  IF joined = {}
        THEN {[id |-> paper_id, methodology_summary |-> NULL]}
        ELSE {[id |-> paper_id,
               methodology_summary |-> db.summaries[j].methodology_summary] : j \in joined}

\* full_data.get('methodology_summary') != "Not relevant to quantum computing"
KeptAlways(full_data) == TRUE
Kept(full_data) == full_data.methodology_summary # "Not relevant to quantum computing"

\* papers_with_summaries: the lists the loop over the found papers can build
RECURSIVE papers_with_summaries(_, _)
papers_with_summaries(db, found) ==
    IF found = <<>> THEN {<<>>}
    ELSE {(IF Kept(full_data) THEN <<full_data.id>> ELSE <<>>) \o rest :
             full_data \in get_paper_with_summary(db, Head(found).id),
             rest \in papers_with_summaries(db, Tail(found))}

\* the local variable processed of process_papers when it returns
ReturnedProcessed(outs) ==
    Cardinality({k \in 1..Len(outs) : outs[k] = "summarized"})

ExportIdle ==
    /\ collection = <<>>
    /\ last_export = "none"
    /\ regenerations = 0

\* one crawler on its database, no collection summary written yet
CollectionInit ==
    /\ \E n \in 1..MaxPapers : papers = StoredPapers(n)
    /\ summaries = <<>>
    /\ last = [op |-> "init", paper |-> NoPaper, paper_id |-> 0, limit |-> 0,
               pre |-> NoRow,
               nsum |-> 0, ret |-> None, raised |-> FALSE]
    /\ rows = <<>>
    /\ inserted = [a \in ArxivIds |-> NoPaper]
    /\ summarized = {}
    /\ pipe_pc = "idle"
    /\ driver = "crawler"
    /\ Configured(TRUE, TRUE)
    /\ batch = <<>>
    /\ outcomes = <<>>
    /\ stats = NoCounters
    /\ batch_size \in 1..MaxPapers
    /\ runs = 0
    /\ last_pass = NoPass
    /\ interrupted = {}
    /\ ExportIdle

\* "if processed > 0: self.export_collection_summary()": the file is written
\* from the processed papers that are not marked not relevant; an exception
\* of a query or of the exporter is caught and logged
ExportCollectionSummary ==
    /\ pipe_pc = "done"
    /\ driver = "crawler"
    /\ IF ReturnedProcessed(outcomes) > 0
       THEN \E fault \in CallOutcomes :
            \E found \in search_papers(papers, TRUE, CollectionLimit) :
            \E listed \in papers_with_summaries(Db, found) :
                IF fault = "raise"
                THEN /\ last_export' = "failed"
                     /\ UNCHANGED <<collection, regenerations>>
                ELSE IF listed = <<>>
                THEN /\ last_export' = "nothing_to_write"
                     /\ UNCHANGED <<collection, regenerations>>
                ELSE /\ last_export' = "written"
                     /\ collection' = listed
                     /\ regenerations' = regenerations + 1
       ELSE /\ last_export' = "not_called"
            /\ UNCHANGED <<collection, regenerations>>
    /\ pipe_pc' = "cycle_end"
    /\ UNCHANGED <<driver, configVars, batch, outcomes, stats, batch_size, runs,
                   last_pass, interrupted, exceptExport>>

\* run_cycle has returned; the next cycle starts with a new search
NextCycle ==
    /\ pipe_pc = "cycle_end"
    /\ runs < MaxRuns
    /\ pipe_pc' = "idle"
    /\ batch' = <<>>
    /\ outcomes' = <<>>
    /\ stats' = [stats EXCEPT !.processed = 0]
    /\ UNCHANGED <<driver, configVars, batch_size, runs, last_pass, interrupted,
                   exportVars, exceptExport>>

CollectionNext ==
    \/ SearchNewPapers
    \/ ProcessPapers
    \/ ProcessPaper
    \/ ExportCollectionSummary
    \/ NextCycle

(***************************************************************************)
(* Scheduler: ArxivCrawler.start, run_cycle, stop and _signal_handler      *)
(* (crawler.py).  One thread runs everything; Python runs a signal handler *)
(* in that thread, between two steps of whatever the thread is doing.      *)
(***************************************************************************)
\* where the handler of start() is installed: from signal.signal(...) on
Installed == {"registered", "search", "process", "export", "print_stats", "poll"}
\* positions of a cycle inside a bare "except:" (summarizer.py 236-239,
\* markdown_exporter.py 65-68, 196-199), which also catches SystemExit
SwallowPoints == {"process", "export"}

CrawlerIdle ==
    /\ crawl_pc = "constructed"
    /\ running = FALSE
    /\ conn_open = TRUE
    /\ continuous = TRUE
    /\ cycles = 0
    /\ pending = 0
    /\ in_flight = FALSE
    /\ signalled = FALSE
    /\ events = <<>>

\* ArxivCrawler() as cmd_crawl builds it; continuous = not args.once
CrawlerInit ==
    /\ crawl_pc = "constructed"
    /\ running = FALSE
    /\ conn_open = TRUE
    /\ continuous \in BOOLEAN
    /\ cycles = 0
    /\ pending = 0
    /\ in_flight = FALSE
    /\ signalled = FALSE
    /\ events = <<>>

\* start() up to the registration of the handlers and of the job
Start ==
    /\ crawl_pc = "constructed"
    /\ running' = TRUE
    /\ crawl_pc' = "registered"
    /\ UNCHANGED <<conn_open, continuous, cycles, pending, in_flight, signalled, events,
                   exceptCrawler>>

\* run_cycle is entered: at once (run_immediately), or from
\* schedule.run_pending() inside "while self.running"
RunCycle ==
    /\ \/ crawl_pc = "registered"
       \/ crawl_pc = "poll" /\ continuous /\ running
    /\ cycles < MaxCycles
    /\ cycles' = cycles + 1
    /\ in_flight' = TRUE
    /\ events' = Append(events, "cycle_start")
    /\ crawl_pc' = "search"
    /\ UNCHANGED <<running, conn_open, continuous, pending, signalled, exceptCrawler>>

\* the events of the cycle in flight: those after the last "cycle_start"
CycleEvents(ev) ==
    LET starts == {i \in 1..Len(ev) : ev[i] = "cycle_start"}
        from == IF starts = {} THEN 0 ELSE CHOOSE i \in starts : \A j \in starts : j <= i
    IN  SubSeq(ev, from + 1, Len(ev))

\* "except Exception as e" of run_cycle: the error is logged and counted
\* (self.stats['errors'] += 1) and run_cycle goes on to its last lines
run_cycle_reraises(c) == c
run_cycle_except(c) ==
    IF c.raised THEN [c EXCEPT !.events = Append(@, "cycle_error"), !.raised = FALSE]
    ELSE c

\* step 1 and the test of step 2: search_new_papers, then process_papers
\* (batch_size=3) when there is something to process.  get_statistics in
\* the test and get_unprocessed_papers in process_papers have no try of
\* their own: a database error raised there (fault) ends the cycle in the
\* except branch of run_cycle.
CycleSearch ==
    /\ crawl_pc = "search"
    /\ \E n \in 0..CycleBatch, fault \in BOOLEAN :
        \E c \in {run_cycle_except([running |-> running, conn_open |-> conn_open,
                                    events |-> IF fault
                                               THEN <<"search_complete", "db_error">>
                                               ELSE <<"search_complete">>,
                                    raised |-> fault])} :
          /\ pending' = IF fault THEN 0 ELSE n
          /\ fault => n = 0
          /\ events' = events \o (IF fault THEN Append(c.events, "cycle_end") ELSE c.events)
          /\ in_flight' = ~fault
          /\ crawl_pc' = IF c.raised THEN "exited"
                         ELSE IF fault THEN "poll"
                         ELSE IF n > 0 THEN "process" ELSE "print_stats"
    /\ UNCHANGED <<running, conn_open, continuous, cycles, signalled, exceptCrawler>>

\* one pass of the loop of process_papers: the paper is processed and
\* exported, or it is skipped or fails (insert_summary raises on a closed
\* connection).  After the last pass step 3 runs when processed > 0.
CycleProcess ==
    /\ crawl_pc = "process"
    /\ pending > 0
    /\ pending' = pending - 1
    /\ \E ok \in BOOLEAN :
          /\ ok => conn_open
          /\ events' = Append(events, IF ok THEN "processed" ELSE "not_processed")
          /\ crawl_pc' = IF pending > 1 THEN "process"
                         ELSE IF \E i \in 1..Len(CycleEvents(events')) :
                                     CycleEvents(events')[i] = "processed"
                         THEN "export"
                         ELSE "print_stats"
    /\ UNCHANGED <<running, conn_open, continuous, cycles, in_flight, signalled,
                   exceptCrawler>>

\* step 3: export_collection_summary, which catches its own errors (such
\* as search_papers raising on a closed connection)
CycleExport ==
    /\ crawl_pc = "export"
    /\ events' = IF conn_open THEN Append(events, "collection_summary") ELSE events
    /\ crawl_pc' = "print_stats"
    /\ UNCHANGED <<running, conn_open, continuous, cycles, pending, in_flight, signalled,
                   exceptCrawler>>

\* print_stats: get_statistics raises on a closed connection, before
\* anything is printed
print_stats(c) ==
    IF c.conn_open
    THEN [c EXCEPT !.events = Append(@, "stats")]
    ELSE [c EXCEPT !.raised = TRUE]

\* step 4 and the end of run_cycle; an error of step 4 (get_statistics
\* raises: the connection is closed, or fault, another database error) is
\* caught and counted
CyclePrintStats ==
    /\ crawl_pc = "print_stats"
    /\ \E fault \in BOOLEAN :
        \E p \in {print_stats([running |-> running, conn_open |-> conn_open,
                               events |-> events, raised |-> FALSE])} :
        \E c \in {run_cycle_except(IF fault \/ p.raised
                                   THEN [p EXCEPT !.events = Append(events, "db_error"),
                                                  !.raised = TRUE]
                                   ELSE p)} :
          /\ events' = Append(c.events, "cycle_end")
          /\ crawl_pc' = IF c.raised THEN "exited" ELSE "poll"
    /\ in_flight' = FALSE
    /\ UNCHANGED <<running, conn_open, continuous, cycles, pending, signalled, exceptCrawler>>

\* "if continuous: while self.running:" is left, start() and cmd_crawl
\* return and the process ends
Return ==
    /\ crawl_pc = "poll"
    /\ ~(continuous /\ running)
    /\ crawl_pc' = "exited"
    /\ events' = Append(events, "exit")
    /\ UNCHANGED <<running, conn_open, continuous, cycles, pending, in_flight, signalled,
                   exceptCrawler>>

\* stop(): self.running = False, print_stats(), self.database.close()
stopKeepsRunning(c) ==
    LET p == print_stats(c)
    IN  IF p.raised THEN p
        ELSE [p EXCEPT !.conn_open = FALSE, !.events = Append(@, "close")]
stop(c) ==
    LET p == print_stats([c EXCEPT !.running = FALSE])
    IN  IF p.raised THEN p
        ELSE [p EXCEPT !.conn_open = FALSE, !.events = Append(@, "close")]

\* _signal_handler: stop(), then sys.exit(0).  SystemExit is raised where
\* the thread was interrupted; "except Exception" does not catch it, a bare
\* "except:" does.
SignalHandler ==
    /\ crawl_pc \in Installed
    /\ ~signalled
    /\ signalled' = TRUE
    /\ \E swallowed \in BOOLEAN :
          /\ swallowed => crawl_pc \in SwallowPoints
          /\ LET c == stop([running |-> running, conn_open |-> conn_open,
                            events |-> Append(events, "signal"), raised |-> FALSE])
             IN  /\ running' = c.running
                 /\ conn_open' = c.conn_open
                 /\ IF swallowed
                    THEN /\ events' = c.events
                         /\ UNCHANGED crawl_pc
                    ELSE /\ events' = Append(c.events, "exit")
                         /\ crawl_pc' = "exited"
    /\ UNCHANGED <<continuous, cycles, pending, in_flight, exceptCrawler>>

\* a signal before signal.signal(...) has run ends the process at once
SignalBeforeStart ==
    /\ crawl_pc = "constructed"
    /\ crawl_pc' = "killed"
    /\ UNCHANGED <<running, conn_open, continuous, cycles, pending, in_flight, signalled,
                   events, exceptCrawler>>

CrawlerNext ==
    \/ Start
    \/ RunCycle
    \/ CycleSearch
    \/ CycleProcess
    \/ CycleExport
    \/ CyclePrintStats
    \/ Return
    \/ SignalHandler
    \/ SignalBeforeStart

(***************************************************************************)
(* Search Client: _parse_arxiv_response (arxiv_search.py) on one response. *)
(***************************************************************************)
\* An element of an entry: present with text, present and empty (its .text
\* is None), or absent (entry.find returns None).
Elements == {"text", "empty", "absent"}
NotXml == [well_formed |-> FALSE, entries |-> <<>>]

\* the entries a feed may hold; entry i of a response carries the digit i
\* (summary is read the way title is: its absent case is not repeated)
RawEntries == [id : Elements, title : Elements, summary : Elements \ {"absent"}]
XmlResponses ==
    {NotXml} \cup
    {[well_formed |-> TRUE, entries |-> e] : e \in SeqsUpTo(RawEntries, MaxEntries)}

NA == <<"N", "/", "A">>
AbsMarker == <<"/", "a", "b", "s", "/">>
IdText(i) == <<"u">> \o AbsMarker \o <<"2", "4", ".", DecimalDigits[i + 1]>>
TitleText(i) == <<" ", "T", "\n", DecimalDigits[i + 1], "\n">>
SummaryText(i) == <<"A", DecimalDigits[i + 1], " ">>

\* s.replace(a, b) for one-character a and b
replace(s, a, b) == [i \in 1..Len(s) |-> IF s[i] = a THEN b ELSE s[i]]

\* s.split(sep)[-1]: what follows the last sep in s, s when there is none
SplitLast(s, sep) ==
    LET at == {i \in 1..(Len(s) - Len(sep) + 1) : SubSeq(s, i, i + Len(sep) - 1) = sep}
    IN  IF at = {} THEN s
        ELSE LET i == CHOOSE k \in at : \A j \in at : j <= k
             IN  SubSeq(s, i + Len(sep), Len(s))

\* the body of the try block for entry i: None has no attribute split or
\* strip, so an empty id, title or summary element raises
ParseEntry(entry, i) ==
    IF entry.id = "empty" \/ entry.title = "empty" \/ entry.summary = "empty"
    THEN [raised |-> TRUE, paper |-> <<>>]
    ELSE [raised |-> FALSE,
          paper |->
            [arxiv_id |-> IF entry.id = "absent" THEN NA ELSE SplitLast(IdText(i), AbsMarker),
             title |-> IF entry.title = "absent" THEN NA
                       ELSE replace(strip(TitleText(i)), "\n", " "),
             abstract |-> IF entry.summary = "absent" THEN NA
                          ELSE replace(strip(SummaryText(i)), "\n", " ")]]

\* except Exception as e: print and continue with the next entry
EntryErrorAborts(acc) == [papers |-> <<>>, raised |-> TRUE, go_on |-> FALSE]
EntryError(acc) == [papers |-> acc, raised |-> FALSE, go_on |-> TRUE]

\* the loop over root.findall('atom:entry', ns), from entry i on
RECURSIVE ParseEntries(_, _, _)
ParseEntries(entries, i, acc) ==
    IF i > Len(entries)
    THEN [papers |-> acc, raised |-> FALSE]
    ELSE LET e == ParseEntry(entries[i], i)
         IN  IF e.raised
             THEN LET h == EntryError(acc)
                  IN  IF h.go_on THEN ParseEntries(entries, i + 1, h.papers)
                      ELSE [papers |-> h.papers, raised |-> h.raised]
             ELSE ParseEntries(entries, i + 1, Append(acc, e.paper))

\* _parse_arxiv_response: ET.fromstring raises on data that is not XML
_parse_arxiv_response(data) ==
    IF ~data.well_formed
    THEN [papers |-> <<>>, raised |-> TRUE]
    ELSE ParseEntries(data.entries, 1, <<>>)

NotParsed == [papers |-> <<>>, raised |-> FALSE]

ParseIdle ==
    /\ parse_pc = "idle"
    /\ xml_data = NotXml
    /\ parsed_papers = NotParsed

\* the response body search read from the API
ParseInit ==
    /\ parse_pc = "idle"
    /\ xml_data \in XmlResponses
    /\ parsed_papers = NotParsed

ParseArxivResponse ==
    /\ parse_pc = "idle"
    /\ parsed_papers' = _parse_arxiv_response(xml_data)
    /\ parse_pc' = "parsed"
    /\ UNCHANGED <<xml_data, exceptParse>>

ParseNext ==
    \/ ParseArxivResponse

(***************************************************************************)
(* Store: two connections on one database file (database.py, _connect and  *)
(* insert_paper).  Each PaperDatabase has its own sqlite3 connection; the  *)
(* file has one write lock.  A connection takes it when it executes the    *)
(* INSERT and gives it back when it commits or rolls back.                 *)
(***************************************************************************)
Connections == {1, 2}
Unlocked == 0

\* may connection c write: nobody else holds the write lock
CanWriteAlways(holder, c) == TRUE
CanWrite(holder, c) == holder \in {Unlocked, c}

NoCalls == [c \in Connections |-> <<>>]

ConnIdle ==
    /\ conn_table = <<>>
    /\ conn_lock = Unlocked
    /\ conn_pc = [c \in Connections |-> "idle"]
    /\ conn_arg = [c \in Connections |-> NoPaper]
    /\ conn_row = [c \in Connections |-> NoRow]
    /\ conn_calls = NoCalls

\* two PaperDatabase objects opened on a new database file
ConnInit ==
    /\ conn_table = <<>>
    /\ conn_lock = Unlocked
    /\ conn_pc = [c \in Connections |-> "idle"]
    /\ conn_arg = [c \in Connections |-> NoPaper]
    /\ conn_row = [c \in Connections |-> NoRow]
    /\ conn_calls = NoCalls

\* history: the call of the other connection for the same arxiv_id that is
\* in progress when connection c returns, by its number; 0 when there is none
Partner(c, aid) ==
    LET d == CHOOSE e \in Connections : e # c
    IN  IF conn_pc[d] # "idle" /\ conn_arg[d].arxiv_id = aid
        THEN Len(conn_calls[d]) + 1
        ELSE 0

Returned(c, ret, how) ==
    Append(conn_calls[c],
           [arxiv_id |-> conn_arg[c].arxiv_id, ret |-> ret, how |-> how,
            partner |-> Partner(c, conn_arg[c].arxiv_id)])

\* insert_paper(paper) is called on connection c
ConnCall(c) ==
    /\ conn_pc[c] = "idle"
    /\ Len(conn_calls[c]) < MaxCalls
    /\ \E aid \in ArxivIds :
          conn_arg' = [conn_arg EXCEPT ![c] = PaperDict(aid, c)]
    /\ conn_pc' = [conn_pc EXCEPT ![c] = "execute"]
    /\ UNCHANGED <<conn_table, conn_lock, conn_row, conn_calls, exceptConn>>

\* cursor.execute(INSERT ...).  The statement needs the write lock.  With
\* the lock it checks UNIQUE against the committed rows: IntegrityError
\* returns None and leaves the transaction (and the lock) open; otherwise
\* the row is written in the open transaction.
ConnExecute(c) ==
    /\ conn_pc[c] = "execute"
    /\ CanWrite(conn_lock, c)
    /\ conn_lock' = c
    /\ IF ArxivIdTaken(conn_table, conn_arg[c].arxiv_id)
       THEN /\ conn_calls' = [conn_calls EXCEPT ![c] = Returned(c, None, "integrity")]
            /\ conn_pc' = [conn_pc EXCEPT ![c] = "idle"]
            /\ UNCHANGED conn_row
       ELSE /\ conn_row' = [conn_row EXCEPT ![c] = NewPaperRow(conn_table, conn_arg[c])]
            /\ conn_pc' = [conn_pc EXCEPT ![c] = "commit"]
            /\ UNCHANGED conn_calls
    /\ UNCHANGED <<conn_table, conn_arg, exceptConn>>

\* cursor.execute(INSERT ...) while the other connection holds the write
\* lock for longer than the busy timeout: OperationalError, caught by
\* "except Exception": rollback, return None
ConnBusy(c) ==
    /\ conn_pc[c] = "execute"
    /\ ~CanWrite(conn_lock, c)
    /\ conn_calls' = [conn_calls EXCEPT ![c] = Returned(c, None, "locked")]
    /\ conn_pc' = [conn_pc EXCEPT ![c] = "idle"]
    /\ UNCHANGED <<conn_table, conn_lock, conn_arg, conn_row, exceptConn>>

\* self.conn.commit(); return cursor.lastrowid
ConnCommit(c) ==
    /\ conn_pc[c] = "commit"
    /\ conn_table' = Append(conn_table, conn_row[c])
    /\ conn_lock' = Unlocked
    /\ conn_row' = [conn_row EXCEPT ![c] = NoRow]
    /\ conn_calls' = [conn_calls EXCEPT ![c] = Returned(c, conn_row[c].id, "id")]
    /\ conn_pc' = [conn_pc EXCEPT ![c] = "idle"]
    /\ UNCHANGED <<conn_arg, exceptConn>>

ConnNext ==
    \/ \E c \in Connections : ConnCall(c)
    \/ \E c \in Connections : ConnExecute(c)
    \/ \E c \in Connections : ConnBusy(c)
    \/ \E c \in Connections : ConnCommit(c)

(***************************************************************************)
(* Specifications.                                                         *)

(***************************************************************************)
(* Crawler search (crawler.py): search_new_papers runs one search per      *)
(* category and per keyword on the crawler's one searcher and saves what   *)
(* each search returned with insert_paper.                                 *)
(***************************************************************************)
\* categories = ['quant-ph', 'cs.ET'] and the five default keywords
DefaultCategories == 2
DefaultKeywords == 5
Queries == DefaultCategories + DefaultKeywords

\* the dictionary of a feed entry as insert_paper reads it: the parser gives
\* every entry a title; published is a timestamp, here the rank of the entry
PaperOfEntry(entry) ==
    [arxiv_id |-> entry.arxiv_id, title |-> "t1", published |-> entry.arxiv_id]

\* for paper in papers: paper_id = insert_paper(paper); if paper_id: new_papers += 1
\* faults[k]: the insert of the k-th paper meets a database error
RECURSIVE SaveToDatabase(_, _, _, _)
SaveToDatabase(db, found, faults, new_papers) ==
    IF found = <<>> THEN [db |-> db, new_papers |-> new_papers]
    ELSE LET r == insert_paper(db, PaperOfEntry(Head(found)), Head(faults))
         IN  SaveToDatabase(r.db, Tail(found), Tail(faults),
                            IF r.ret # None THEN new_papers + 1 ELSE new_papers)

InsertFaults(n) == [1..n -> BOOLEAN]

NoQuery == [found |-> <<>>, new_papers |-> 0, raised |-> FALSE]

IngestIdle ==
    /\ query = 0
    /\ total_new_papers = 0
    /\ last_query = NoQuery

\* search_new_papers is entered: total_new_papers = 0
StartSearchNewPapers ==
    /\ query = 0
    /\ query' = 1
    /\ total_new_papers' = 0
    /\ last_query' = NoQuery
    /\ UNCHANGED <<storeVars, searchVars, exceptIngest>>

\* one pass of the category loop or of the keyword loop: the search, the
\* inserts of the papers it returned, and the except branch of the pass;
\* after the last keyword the call returns total_new_papers
SearchAndSave ==
    /\ query \in 1..Queries
    /\ \E fetch \in Fetches, parsed \in Responses :
          \E r \in {search(seen_papers, fetch, parsed, TRUE)} :
          \E faults \in InsertFaults(Len(r.unique_papers)) :
          \E saved \in {SaveToDatabase(Db, r.unique_papers, faults, 0)} :
              /\ fetch # "ok" => parsed = <<>>
              /\ seen_papers' = r.seen_papers
              /\ papers' = IF r.raised THEN papers ELSE saved.db.papers
              /\ total_new_papers' =
                     IF r.raised THEN total_new_papers
                     ELSE total_new_papers + saved.new_papers
              /\ last_query' = [found |-> r.unique_papers,
                                new_papers |-> IF r.raised THEN 0 ELSE saved.new_papers,
                                raised |-> r.raised]
    /\ query' = IF query < Queries THEN query + 1 ELSE 0
    /\ UNCHANGED <<summaries, last, rows, inserted, summarized, output, multiple,
                   times_returned, exceptIngest>>

\* the crawler process ends and a new one is started on the same database
\* file: ArxivSearcher() is built again, with an empty seen_papers
NewCrawler ==
    /\ query = 0
    /\ seen_papers # {}
    /\ seen_papers' = {}
    /\ UNCHANGED <<storeVars, output, multiple, times_returned, ingestVars, exceptIngest>>

IngestNext == StartSearchNewPapers \/ SearchAndSave \/ NewCrawler

(***************************************************************************)
(* Shutdown inside insert_summary (database.py, crawler.py).  The call is  *)
(* taken statement by statement on the crawler's one connection; papers    *)
(* and summaries are the committed tables of the database file, tx_db the  *)
(* tables with the uncommitted work of the connection.  Python runs the    *)
(* signal handler between two statements of the main thread.               *)
(***************************************************************************)
NoSummaryCall == [paper_id |-> 0, at |-> "none", ended |-> "none"]

TxIdle ==
    /\ tx_pc = "idle"
    /\ tx_db = Db
    /\ tx_call = NoSummaryCall
    /\ tx_last = NoSummaryCall

\* a database with papers found by earlier searches, none processed
TxInit ==
    /\ \E n \in 1..MaxPapers : papers = StoredPapers(n)
    /\ summaries = <<>>
    /\ last = [op |-> "init", paper |-> NoPaper, paper_id |-> 0, limit |-> 0,
               pre |-> NoRow,
               nsum |-> 0, ret |-> None, raised |-> FALSE]
    /\ rows = <<>>
    /\ inserted = [a \in ArxivIds |-> NoPaper]
    /\ summarized = {}
    /\ TxIdle

\* how a call of insert_summary that is not interrupted leaves its
\* statement: the next statement, or "except Exception" with its rollback
Ended(call, at, ended) == [paper_id |-> call.paper_id, at |-> at, ended |-> ended]

\* cursor.execute(INSERT INTO summaries ...) for a paper of the batch; the
\* statement opens the transaction
ExecuteInsert ==
    /\ tx_pc = "idle"
    /\ Len(summaries) < MaxSummaries
    /\ \E paper_id \in UnprocessedIds(papers), fault \in BOOLEAN :
          /\ tx_call' = [paper_id |-> paper_id, at |-> "insert", ended |-> "none"]
          /\ IF fault
             THEN /\ tx_db' = Rollback(Db, tx_db)
                  /\ tx_pc' = "idle"
                  /\ tx_last' = Ended(tx_call', "insert", "rolled_back")
             ELSE /\ tx_db' = [tx_db EXCEPT !.summaries =
                                  Append(@, NewSummaryRow(tx_db.summaries, paper_id,
                                                          "methodology", "contributions"))]
                  /\ tx_pc' = "inserted"
                  /\ UNCHANGED tx_last
    /\ UNCHANGED <<storeVars, exceptTx>>

\* cursor.execute(UPDATE papers SET processed = 1 WHERE id = ?)
ExecuteUpdate ==
    /\ tx_pc = "inserted"
    /\ \E fault \in BOOLEAN :
          IF fault
          THEN /\ tx_db' = Rollback(Db, tx_db)
               /\ tx_pc' = "idle"
               /\ tx_last' = Ended(tx_call, "update", "rolled_back")
          ELSE /\ tx_db' = [tx_db EXCEPT !.papers = MarkProcessed(@, tx_call.paper_id)]
               /\ tx_pc' = "updated"
               /\ UNCHANGED tx_last
    /\ UNCHANGED <<storeVars, tx_call, exceptTx>>

\* self.conn.commit() and the return
ExecuteCommit ==
    /\ tx_pc = "updated"
    /\ \E fault \in BOOLEAN :
          IF fault
          THEN /\ tx_db' = Rollback(Db, tx_db)
               /\ tx_last' = Ended(tx_call, "commit", "rolled_back")
               /\ UNCHANGED <<papers, summaries>>
          ELSE /\ papers' = Commit(Db, tx_db).papers
               /\ summaries' = Commit(Db, tx_db).summaries
               /\ tx_last' = Ended(tx_call, "commit", "committed")
               /\ UNCHANGED tx_db
    /\ tx_pc' = "idle"
    /\ UNCHANGED <<last, rows, inserted, summarized, tx_call, exceptTx>>

\* self.conn.close() with a transaction open: sqlite3 does not commit it,
\* the uncommitted work is rolled back
closeCommits(committed, working) == working
close(committed, working) == Rollback(committed, working)

\* _signal_handler at any statement of the main thread: stop() sets
\* running, prints the statistics and closes the connection, then sys.exit(0)
\* raises SystemExit, which "except Exception" of insert_summary does not
\* catch.  stats_fault: get_statistics raises inside the handler; the
\* exception comes up where the thread was interrupted, inside the try of
\* insert_summary when the call had begun, and nothing is closed.
ShutdownSignal ==
    /\ tx_pc \in {"idle", "inserted", "updated"}
    /\ \E stats_fault \in BOOLEAN :
          IF stats_fault
          THEN /\ tx_db' = Rollback(Db, tx_db)
               /\ tx_pc' = "idle"
               /\ tx_last' = IF tx_pc = "idle" THEN tx_last
                             ELSE Ended(tx_call, tx_pc, "rolled_back")
               /\ UNCHANGED <<papers, summaries>>
          ELSE /\ papers' = close(Db, tx_db).papers
               /\ summaries' = close(Db, tx_db).summaries
               /\ tx_db' = close(Db, tx_db)
               /\ tx_pc' = "exited"
               /\ tx_last' = IF tx_pc = "idle" THEN tx_last
                             ELSE Ended(tx_call, tx_pc, "shutdown")
    /\ UNCHANGED <<last, rows, inserted, summarized, tx_call, exceptTx>>

\* the crawler is started again on the database file
Reopen ==
    /\ tx_pc = "exited"
    /\ tx_pc' = "idle"
    /\ tx_db' = Db
    /\ UNCHANGED <<storeVars, tx_call, tx_last, exceptTx>>

TxNext == ExecuteInsert \/ ExecuteUpdate \/ ExecuteCommit \/ ShutdownSignal \/ Reopen

(***************************************************************************)
(* Repeated crawl cycles (crawler.py): run_cycle after run_cycle on one    *)
(* database, without end.  The counters of self.stats grow without bound   *)
(* and decide nothing, so they are left out here.                          *)
(***************************************************************************)
NoAttempt == [id |-> 0, branch |-> "none", succeeded |-> FALSE]

RepeatIdle == attempt = NoAttempt

RepeatInit ==
    /\ \E n \in 1..MaxPapers : papers = StoredPapers(n)
    /\ summaries = <<>>
    /\ last = [op |-> "init", paper |-> NoPaper, paper_id |-> 0, limit |-> 0,
               pre |-> NoRow,
               nsum |-> 0, ret |-> None, raised |-> FALSE]
    /\ rows = <<>>
    /\ inserted = [a \in ArxivIds |-> NoPaper]
    /\ summarized = {}
    /\ pipe_pc = "idle"
    /\ driver = "crawler"
    /\ Configured(TRUE, TRUE)
    /\ batch = <<>>
    /\ outcomes = <<>>
    /\ stats = NoCounters
    /\ batch_size \in 1..MaxPapers
    /\ runs = 0
    /\ last_pass = NoPass
    /\ interrupted = {}
    /\ RepeatIdle

\* the calls a pass made all succeeded: the relevance call and the save for
\* a paper found not relevant; extraction, summaries, save and export for a
\* relevant one
CallsSucceeded(env, is_relevant) ==
    /\ env.response.fault = "none"
    /\ env.save = "none"
    /\ is_relevant =>
          /\ env.download = "ok"
          /\ env.methodology = "none"
          /\ env.contributions = "none"
          /\ env.export = "ok"

\* check_quantum_relevance on each of the answers the passes may get
RelevanceOf ==
    [response \in RelevanceResponses |->
        check_quantum_relevance(response.fault, response.text, DefaultThreshold)]

\* step 1 of a cycle: search_new_papers stores a paper the searches found
CycleSearchNewPapers ==
    /\ pipe_pc = "idle"
    /\ Len(papers) < MaxPapers
    /\ \E newer \in BOOLEAN :
        \E r \in {insert_paper(Db, FoundPaper(papers, newer), FALSE)} :
          /\ r.ret # None
          /\ papers' = r.db.papers
          /\ summaries' = r.db.summaries
    /\ UNCHANGED <<last, rows, inserted, summarized, pipelineVars, attempt, exceptRepeat>>

\* step 2: process_papers up to its loop
PullBatch ==
    /\ pipe_pc = "idle"
    /\ \E result \in get_unprocessed_papers(papers, batch_size) :
          /\ batch' = result
          /\ pipe_pc' = IF result = <<>> THEN "done" ELSE "loop"
    /\ outcomes' = <<>>
    /\ UNCHANGED <<storeVars, driver, configVars, stats, batch_size, runs, last_pass,
                   interrupted, attempt, exceptRepeat>>

\* one pass of the loop of process_papers; "except Exception" catches what
\* the pass raises and the loop goes on
AttemptPaper ==
    /\ pipe_pc = "loop"
    /\ \E env \in PaperEnvs, i \in {Len(outcomes) + 1} :
        \E body \in {PaperBodyGiven(Db, batch[i], env, RelevanceOf[env.response])} :
          /\ papers' = body.db.papers
          /\ summaries' = body.db.summaries
          /\ outcomes' = Append(outcomes, body.branch)
          /\ attempt' = [id |-> batch[i].id, branch |-> body.branch,
                         succeeded |-> CallsSucceeded(env, body.is_relevant)]
          /\ pipe_pc' = IF body.raised /\ PaperError(stats).raised THEN "raised"
                        ELSE IF i = Len(batch) THEN "done"
                        ELSE "loop"
    /\ UNCHANGED <<last, rows, inserted, summarized, driver, configVars, batch, stats,
                   batch_size, runs, last_pass, interrupted, exceptRepeat>>

\* the cycle ends; the scheduler runs the next one when it is due
EndCycle ==
    /\ pipe_pc = "done"
    /\ pipe_pc' = "idle"
    /\ batch' = <<>>
    /\ outcomes' = <<>>
    /\ UNCHANGED <<storeVars, driver, configVars, stats, batch_size, runs, last_pass,
                   interrupted, attempt, exceptRepeat>>

RepeatNext == CycleSearchNewPapers \/ PullBatch \/ AttemptPaper \/ EndCycle

(***************************************************************************)
InitStore == StoreInit /\ SearchInit /\ FilterIdle /\ RelevanceIdle /\ OCRInit /\ PipelineIdle /\ CrawlerIdle /\ ParseIdle /\ ConnIdle /\ ExportIdle /\ IngestIdle /\ TxIdle /\ RepeatIdle
SpecStore == InitStore /\ [][StoreNext]_vars

InitSearch == StoreInit /\ SearchInit /\ FilterIdle /\ RelevanceIdle /\ OCRInit /\ PipelineIdle /\ CrawlerIdle /\ ParseIdle /\ ConnIdle /\ ExportIdle /\ IngestIdle /\ TxIdle /\ RepeatIdle
SpecSearch == InitSearch /\ [][SearchNext]_vars

InitFilter == StoreInit /\ SearchInit /\ FilterInit /\ RelevanceIdle /\ OCRInit /\ PipelineIdle /\ CrawlerIdle /\ ParseIdle /\ ConnIdle /\ ExportIdle /\ IngestIdle /\ TxIdle /\ RepeatIdle
SpecFilter == InitFilter /\ [][FilterNext]_vars

InitRelevance == StoreInit /\ SearchInit /\ FilterIdle /\ RelevanceInit /\ OCRInit /\ PipelineIdle /\ CrawlerIdle /\ ParseIdle /\ ConnIdle /\ ExportIdle /\ IngestIdle /\ TxIdle /\ RepeatIdle
SpecRelevance == InitRelevance /\ [][RelevanceNext]_vars

InitOCR == StoreInit /\ SearchInit /\ FilterIdle /\ RelevanceIdle /\ OCRInit /\ PipelineIdle /\ CrawlerIdle /\ ParseIdle /\ ConnIdle /\ ExportIdle /\ IngestIdle /\ TxIdle /\ RepeatIdle
SpecOCR == InitOCR /\ [][OCRNext]_vars

InitPipeline == PipelineInit /\ SearchInit /\ FilterIdle /\ RelevanceIdle /\ OCRInit /\ CrawlerIdle /\ ParseIdle /\ ConnIdle /\ ExportIdle /\ IngestIdle /\ TxIdle /\ RepeatIdle
SpecPipeline == InitPipeline /\ [][PipelineNext]_vars

InitCrawler == StoreInit /\ SearchInit /\ FilterIdle /\ RelevanceIdle /\ OCRInit /\ PipelineIdle /\ CrawlerInit /\ ParseIdle /\ ConnIdle /\ ExportIdle /\ IngestIdle /\ TxIdle /\ RepeatIdle
SpecCrawler == InitCrawler /\ [][CrawlerNext]_vars
\* the main thread goes on with what it is doing
FairCrawler ==
    /\ SpecCrawler
    /\ WF_vars(CycleSearch) /\ WF_vars(CycleProcess) /\ WF_vars(CycleExport)
    /\ WF_vars(CyclePrintStats) /\ WF_vars(Return)
\* and schedule.run_pending() in "while self.running" runs the job when due
FairScheduler == FairCrawler /\ WF_vars(RunCycle)

InitParse == StoreInit /\ SearchInit /\ FilterIdle /\ RelevanceIdle /\ OCRInit /\ PipelineIdle /\ CrawlerIdle /\ ParseInit /\ ConnIdle /\ ExportIdle /\ IngestIdle /\ TxIdle /\ RepeatIdle
SpecParse == InitParse /\ [][ParseNext]_vars

InitConn == StoreInit /\ SearchInit /\ FilterIdle /\ RelevanceIdle /\ OCRInit /\ PipelineIdle /\ CrawlerIdle /\ ParseIdle /\ ConnInit /\ ExportIdle /\ IngestIdle /\ TxIdle /\ RepeatIdle
SpecConn == InitConn /\ [][ConnNext]_vars

InitLifecycle == LifecycleInit /\ SearchInit /\ FilterIdle /\ RelevanceIdle /\ OCRInit /\ CrawlerIdle /\ ParseIdle /\ ConnIdle /\ ExportIdle /\ IngestIdle /\ TxIdle /\ RepeatIdle
SpecLifecycle == InitLifecycle /\ [][LifecycleNext]_vars

InitStartup == StartupInit /\ SearchInit /\ FilterIdle /\ RelevanceIdle /\ OCRInit /\ CrawlerIdle /\ ParseIdle /\ ConnIdle /\ ExportIdle /\ IngestIdle /\ TxIdle /\ RepeatIdle
SpecStartup == InitStartup /\ [][StartupNext]_vars

InitSummaryFaults == LifecycleInit /\ SearchInit /\ FilterIdle /\ RelevanceIdle /\ OCRInit /\ CrawlerIdle /\ ParseIdle /\ ConnIdle /\ ExportIdle /\ IngestIdle /\ TxIdle /\ RepeatIdle
SpecSummaryFaults == InitSummaryFaults /\ [][SummaryFaultsNext]_vars

InitCollection == CollectionInit /\ SearchInit /\ FilterIdle /\ RelevanceIdle /\ OCRInit /\ CrawlerIdle /\ ParseIdle /\ ConnIdle /\ IngestIdle /\ TxIdle /\ RepeatIdle
SpecCollection == InitCollection /\ [][CollectionNext]_vars

InitIngest == StoreInit /\ SearchInit /\ FilterIdle /\ RelevanceIdle /\ OCRInit /\ PipelineIdle /\ CrawlerIdle /\ ParseIdle /\ ConnIdle /\ ExportIdle /\ IngestIdle /\ TxIdle /\ RepeatIdle
SpecIngest == InitIngest /\ [][IngestNext]_vars

InitTx == TxInit /\ SearchInit /\ FilterIdle /\ RelevanceIdle /\ OCRInit /\ PipelineIdle /\ CrawlerIdle /\ ParseIdle /\ ConnIdle /\ ExportIdle /\ IngestIdle /\ RepeatIdle
SpecTx == InitTx /\ [][TxNext]_vars

InitRepeat == RepeatInit /\ SearchInit /\ FilterIdle /\ RelevanceIdle /\ OCRInit /\ CrawlerIdle /\ ParseIdle /\ ConnIdle /\ ExportIdle /\ IngestIdle /\ TxIdle
SpecRepeat == InitRepeat /\ [][RepeatNext]_vars
\* the main thread goes on with the cycle and the scheduler runs the next one
FairRepeat ==
    /\ SpecRepeat
    /\ WF_vars(PullBatch) /\ WF_vars(AttemptPaper) /\ WF_vars(EndCycle)

(***************************************************************************)
(* Store contract.                                                         *)
(***************************************************************************)
\* C1: a second insert_paper with an arxiv_id that is already stored returns
\* None without raising and leaves that row as it was (fields and processed
\* flag); the Store never holds two rows with one arxiv_id, and the row it
\* holds for an arxiv_id carries the fields of the first record inserted.
C1_DuplicateInsertRejected ==
    /\ \A a \in ArxivIds : Cardinality(PaperIdsWith(papers, a)) <= 1
    /\ \A a \in ArxivIds :
          inserted[a] # NoPaper =>
              /\ Cardinality(PaperIdsWith(papers, a)) = 1
              /\ RowOfArxivId(papers, a).title = inserted[a].title
              /\ RowOfArxivId(papers, a).published = inserted[a].published
    /\ (last.op = "insert_paper" /\ last.pre # NoRow) =>
          /\ last.ret = None
          /\ last.raised = FALSE
          /\ RowOfArxivId(papers, last.paper.arxiv_id) = last.pre

\* C1 witness: a well-formed record R2 was inserted after a different record
\* R1 with the same arxiv_id, and R1 had already been processed.
C1_Witness ==
    /\ last.op = "insert_paper"
    /\ last.pre # NoRow
    /\ last.paper.title # NULL
    /\ last.paper.title # last.pre.title
    /\ last.pre.processed = TRUE
    /\ Len(papers) = 2

\* C2: after insert_summary either the call returned the new summary's id,
\* the summary row for that paper exists and the parent (when stored) is
\* processed, or it returned None, no summary was added and the parent row
\* is as it was before the call.
C2_SummaryAtomic ==
    last.op = "insert_summary" =>
        \/ /\ last.ret # None
           /\ Len(summaries) = last.nsum + 1
           /\ last.ret = Len(summaries)
           /\ summaries[last.ret].paper_id = last.paper_id
           /\ \A i \in 1..Len(papers) :
                 papers[i].id = last.paper_id => papers[i].processed = TRUE
        \/ /\ last.ret = None
           /\ Len(summaries) = last.nsum
           /\ RowOfId(papers, last.paper_id) = last.pre

\* C2 witness: insert_summary succeeded for a stored paper that was
\* unprocessed before the call.
C2_Witness ==
    /\ last.op = "insert_summary"
    /\ last.ret # None
    /\ last.pre # NoRow
    /\ last.pre.processed = FALSE
    /\ RowOfId(papers, last.paper_id).processed = TRUE

\* C3: no list returned by get_unprocessed_papers, whatever its limit, holds
\* a paper for which insert_summary has succeeded at any earlier time.
C3_SummarizedNeverReturned ==
    last.op = "get_unprocessed_papers" =>
        \A k \in 1..Len(rows) : rows[k].id \notin summarized

\* C3 witness: get_unprocessed_papers returned a paper while another stored
\* paper, summarized earlier, was left out although the limit had room for it.
C3_Witness ==
    /\ last.op = "get_unprocessed_papers"
    /\ summarized # {}
    /\ Len(rows) >= 1
    /\ Len(rows) < last.limit

\* C19: get_unprocessed_papers(limit) returns at most limit rows (all the
\* unprocessed ones when there are fewer), each a stored row with
\* processed = 0 and none twice, in descending order of published, and no
\* unprocessed row it leaves out was published later than one it returns.
C19_NewestUnprocessedFirst ==
    last.op = "get_unprocessed_papers" =>
        LET returned == {rows[k].id : k \in 1..Len(rows)}
            left_out == {i \in 1..Len(papers) : ~papers[i].processed /\ i \notin returned}
        IN  /\ Len(rows) <= last.limit
            /\ Cardinality(returned) = Len(rows)
            /\ left_out # {} => Len(rows) = last.limit
            /\ \A k \in 1..Len(rows) :
                  /\ rows[k].id \in 1..Len(papers)
                  /\ rows[k] = papers[rows[k].id]
                  /\ rows[k].processed = FALSE
                  /\ k < Len(rows) => rows[k].published >= rows[k + 1].published
                  /\ \A i \in left_out : papers[i].published <= rows[k].published

\* C19 witness: with two unprocessed papers stored, the one inserted first
\* being the later published, a call with limit 1 returned that one.
C19_Witness ==
    /\ last.op = "get_unprocessed_papers"
    /\ last.limit = 1
    /\ Len(papers) = 2
    /\ ~papers[1].processed /\ ~papers[2].processed
    /\ papers[1].published > papers[2].published
    /\ Len(rows) = 1
    /\ rows[1].id = 1

(***************************************************************************)
(* Search Client contract.                                                 *)
(***************************************************************************)
\* C4: since the last reset_seen_papers, no arxiv_id has appeared more than
\* once in the lists returned by search and search_multiple_categories,
\* neither twice in one list nor in two lists.
C4_NoRepeatedIds ==
    \A a \in FeedIds : times_returned[a] <= 1

\* C4 witness: a search whose response overlapped what this searcher had
\* already returned still returned a paper, after an earlier call had
\* returned another one.
C4_Witness ==
    /\ output.op = "search"
    /\ output.raised = FALSE
    /\ output.overlap = TRUE
    /\ Len(output.papers) >= 1
    /\ \E a \in FeedIds :
          /\ times_returned[a] = 1
          /\ \A j \in 1..Len(output.papers) : output.papers[j].arxiv_id # a

\* C14: search never raises to its caller: when the HTTP call fails or the
\* response cannot be parsed, the call returns the empty list without
\* raising and leaves seen_papers as it was.
C14_SearchNeverRaises ==
    [][(output'.op = "search" /\ output'.fetch # "ok") =>
            /\ output'.raised = FALSE
            /\ output'.papers = <<>>
            /\ seen_papers' = seen_papers]_vars

\* an entry none of whose id, title and summary elements is empty
WellFormed(entry) == \A el \in {entry.id, entry.title, entry.summary} : el # "empty"

\* the fields the record of entry i carries
ExpectedPaper(entry, i) ==
    [arxiv_id |-> IF entry.id = "absent" THEN NA ELSE <<"2", "4", ".", DecimalDigits[i + 1]>>,
     title |-> IF entry.title = "absent" THEN NA ELSE <<"T", " ", DecimalDigits[i + 1]>>,
     abstract |-> IF entry.summary = "absent" THEN NA ELSE <<"A", DecimalDigits[i + 1]>>]

\* the positions of the well-formed entries, in increasing order
RECURSIVE WellFormedPositions(_, _)
WellFormedPositions(entries, i) ==
    IF i > Len(entries) THEN <<>>
    ELSE IF WellFormed(entries[i]) THEN <<i>> \o WellFormedPositions(entries, i + 1)
    ELSE WellFormedPositions(entries, i + 1)

\* C15: parsing a response that is XML does not raise and returns one record
\* for each entry whose field extraction does not raise, in the order of
\* the entries in the response; the entries whose extraction raises are the
\* only ones left out.
C15_MalformedEntrySkipped ==
    (parse_pc = "parsed" /\ xml_data.well_formed) =>
        LET kept == WellFormedPositions(xml_data.entries, 1)
        IN  /\ parsed_papers.raised = FALSE
            /\ Len(parsed_papers.papers) = Len(kept)
            /\ \A k \in 1..Len(kept) :
                  parsed_papers.papers[k] = ExpectedPaper(xml_data.entries[kept[k]], kept[k])

\* C15 witness: a response of three entries whose second one has an empty
\* title element was parsed into the records of the first and the third.
C15_Witness ==
    /\ parse_pc = "parsed"
    /\ xml_data.well_formed
    /\ Len(xml_data.entries) = 3
    /\ xml_data.entries[2].title = "empty"
    /\ WellFormed(xml_data.entries[1]) /\ WellFormed(xml_data.entries[3])
    /\ Len(parsed_papers.papers) = 2
    /\ parsed_papers.papers[2].title = <<"T", " ", "3">>

\* two characters that differ at most in case
SameLetter(c, d) ==
    \/ c = d
    \/ \E k \in 1..Len(UpperCase) : {c, d} = {UpperCase[k], LowerCase[k]}

\* sub occurs in s at some offset, exactly / up to case
OccursIn(sub, s) ==
    \E i \in 0..(Len(s) - Len(sub)) : \A j \in 1..Len(sub) : s[i + j] = sub[j]

OccursInIgnoringCase(sub, s) ==
    \E i \in 0..(Len(s) - Len(sub)) : \A j \in 1..Len(sub) : SameLetter(s[i + j], sub[j])

HasAllowListedTag(paper) ==
    \E c \in 1..Len(paper.categories) :
        \E qc \in 1..Len(QUANTUM_CATEGORIES) :
            OccursIn(QUANTUM_CATEGORIES[qc], paper.categories[c])

HasDomainKeyword(paper) ==
    \E k \in 1..Len(quantum_keywords) :
        OccursInIgnoringCase(quantum_keywords[k], paper.title \o <<" ">> \o paper.abstract)

\* C5: the pre-filter accepts a record exactly when one of its category tags
\* contains an allow-listed category or its title and abstract contain a
\* domain keyword up to case; so an allow-listed tag is enough whatever the
\* text, and a record with neither is rejected.
C5_RelevanceFilter ==
    fresult # <<>> =>
        /\ fresult[1] = (HasAllowListedTag(fpaper) \/ HasDomainKeyword(fpaper))
        /\ HasAllowListedTag(fpaper) => fresult[1] = TRUE
        /\ (~HasAllowListedTag(fpaper) /\ ~HasDomainKeyword(fpaper)) => fresult[1] = FALSE

\* C5 witness: a record with no allow-listed tag was accepted for a keyword
\* that its text holds only in another case.
C5_Witness ==
    /\ fresult = <<TRUE>>
    /\ ~HasAllowListedTag(fpaper)
    /\ \A k \in 1..Len(quantum_keywords) :
          ~OccursIn(quantum_keywords[k], fpaper.title \o <<" ">> \o fpaper.abstract)

(***************************************************************************)
(* Summarization Client contract.                                          *)
(***************************************************************************)
\* a label is read when its line starts at the first column
LabelsRead(call) == call.layout # "indented"

ExpectedScore(call) ==
    IF LabelsRead(call) /\ call.score.present /\ call.score.numeric
    THEN call.score.expect
    ELSE Zero
ExpectedExplanation(call) ==
    IF LabelsRead(call) /\ call.explanation.present
    THEN call.explanation.expect
    ELSE <<>>
ExpectedTopics(call) ==
    IF LabelsRead(call) /\ call.topics.present THEN call.topics.expect ELSE <<>>

\* a decimal with at most three places, in thousandths
Thousandths(v) == v.sign * v.num * Pow10(3 - v.digits)
AtLeast(v, t) ==
    \/ v.kind = "inf" /\ v.sign = 1
    \/ v.kind = "finite" /\ Thousandths(v) >= Thousandths(t)

FirstExample ==
    <<"S", "C", "O", "R", "E", ":", " ", "0", ".", "8", "5", "\n", "E", "X", "P", "L", "A", "N", "A", "T", "I", "O", "N", ":", " ", "s", "t", "r", "o", "n", "g", " ", "q", "u", "a", "n", "t", "u", "m", " ", "f", "o", "c", "u", "s", "\n", "T", "O", "P", "I", "C", "S", ":", " ", "q", "u", "b", "i", "t", ",", " ", "e", "n", "t", "a", "n", "g", "l", "e", "m", "e", "n", "t">>
SecondExample ==
    <<"S", "C", "O", "R", "E", ":", " ", "o", "o", "p", "s", "\n", "E", "X", "P", "L", "A", "N", "A", "T", "I", "O", "N", ":", " ", "b", "a", "d", "\n", "T", "O", "P", "I", "C", "S", ":", " ", "N", "o", "n", "e">>

\* C6: for a response the client received, the parser's score is the number
\* after "SCORE:" (0.0 when float() rejects that text or the line is
\* absent), its explanation is the stripped text after "EXPLANATION:" (empty
\* when absent), its topics are the stripped comma-separated items after
\* "TOPICS:" (the empty list when that text is "None" or the line is absent),
\* and is_relevant is exactly score >= threshold; the two responses of the
\* specification give (0.85, relevant, two topics) and (0.0, not relevant,
\* no topics).
C6_RelevanceParser ==
    (rresult # <<>> /\ rcall.fault = "none") =>
        LET result == rresult[1]
        IN  /\ result.relevance_score = ExpectedScore(rcall)
            /\ result.explanation = ExpectedExplanation(rcall)
            /\ result.topics = ExpectedTopics(rcall)
            /\ result.is_relevant = AtLeast(ExpectedScore(rcall), rcall.threshold)
            /\ (ResponseText(rcall) = FirstExample /\ rcall.threshold = DefaultThreshold) =>
                    /\ result.relevance_score = Finite(1, 85, 2)
                    /\ result.is_relevant
                    /\ result.topics = <<<<"q", "u", "b", "i", "t">>,
                                         <<"e", "n", "t", "a", "n", "g", "l", "e", "m", "e", "n", "t">>>>
            /\ ResponseText(rcall) = SecondExample =>
                    /\ result.relevance_score = Zero
                    /\ ~result.is_relevant
                    /\ result.topics = <<>>

\* the first response of the specification, and a score equal to the threshold
C6_Witness ==
    /\ rresult # <<>>
    /\ rcall.fault = "none"
    /\ \/ ResponseText(rcall) = FirstExample /\ rcall.threshold = DefaultThreshold
       \/ /\ rcall.layout = "reversed"
          /\ rresult[1].relevance_score = rcall.threshold
          /\ rresult[1].is_relevant

\* C7: check_quantum_relevance returns a result and never raises, whatever
\* the response text and whether or not the client call fails; when the call
\* fails, or the score line is missing or is not a float literal, the result
\* is not relevant with score 0.0.
C7_RelevanceTotal ==
    rresult # <<>> =>
        /\ ~rresult[1].raised
        /\ (\/ rcall.fault # "none"
            \/ ~rcall.score.present
            \/ ~rcall.score.numeric) =>
                /\ ~rresult[1].is_relevant
                /\ rresult[1].relevance_score = Zero

\* a failed client call has been answered with a result
C7_Witness ==
    /\ rresult # <<>>
    /\ rcall.fault = "transport"
    /\ ~rresult[1].raised
    /\ ~rresult[1].is_relevant

(***************************************************************************)
(* Extraction Client contract.                                             *)
(***************************************************************************)
\* the keys and the page texts, written out
ExpectedKeys == <<
    <<"p", "a", "g", "e", "_", "1">>,
    <<"p", "a", "g", "e", "_", "2">>,
    <<"p", "a", "g", "e", "_", "3">>,
    <<"p", "a", "g", "e", "_", "4">>,
    <<"p", "a", "g", "e", "_", "5">>,
    <<"p", "a", "g", "e", "_", "6">>,
    <<"p", "a", "g", "e", "_", "7">>,
    <<"p", "a", "g", "e", "_", "8">>,
    <<"p", "a", "g", "e", "_", "9">>,
    <<"p", "a", "g", "e", "_", "1", "0">>,
    <<"p", "a", "g", "e", "_", "1", "1">>,
    <<"p", "a", "g", "e", "_", "1", "2">>>>
ExpectedPageText(k) == IF page_calls[k] = "raise" THEN <<>> ELSE
    CASE k = 1 -> <<"o", "n", "e">> [] k = 2 -> <<"t", "w", "o">> [] k = 3 -> <<"t", "h", "r", "e", "e">>
      [] k = 4 -> <<"f", "o", "u", "r">> [] k = 5 -> <<"f", "i", "v", "e">> [] k = 6 -> <<"s", "i", "x">>
      [] k = 7 -> <<"s", "e", "v", "e", "n">> [] k = 8 -> <<"e", "i", "g", "h", "t">> [] k = 9 -> <<"n", "i", "n", "e">>
      [] k = 10 -> <<"t", "e", "n">> [] k = 11 -> <<"e", "l", "e", "v", "e", "n">>
      [] k = 12 -> <<"t", "w", "e", "l", "v", "e">>

\* C8: extract_text_from_pdf never stops at a failed page, and for a document
\* of n rendered images (n at most max_pages) it returns exactly n entries,
\* page_1 to page_n in page order, where the entry of a page whose OCR call
\* failed is the empty string and every other entry is the stripped text of
\* that page's own call.
C8_PagePerEntry ==
    /\ ocr_pc # "raised"
    /\ pdf.max_pages # None => images <= pdf.max_pages
    /\ ocr_pc = "loop" => Len(extracted_text) = Len(page_calls) /\ Len(page_calls) < images
    /\ ocr_pc \in {"returned", "joined"} =>
          /\ Len(extracted_text) = images
          /\ \A k \in 1..images :
                /\ extracted_text[k][1] = ExpectedKeys[k]
                /\ extracted_text[k][2] = ExpectedPageText(k)

\* a returned mapping of at least three pages with a failed page in the
\* middle and text on the pages around it
C8_Witness ==
    /\ ocr_pc = "returned"
    /\ images >= 3
    /\ page_calls[images - 1] = "raise"
    /\ extracted_text[images - 1][2] = <<>>
    /\ extracted_text[images][2] # <<>>
    /\ extracted_text[1][2] # <<>>

\* the text before the first page-break marker of text, and what follows it
MarkerAt(text, i) ==
    /\ i + Len(PageBreak) - 1 <= Len(text)
    /\ SubSeq(text, i, i + Len(PageBreak) - 1) = PageBreak
HasMarker(text) == \E i \in 1..Len(text) : MarkerAt(text, i)
FirstMarker(text) ==
    CHOOSE i \in 1..Len(text) : MarkerAt(text, i) /\ \A j \in 1..(i - 1) : ~MarkerAt(text, j)

RECURSIVE Segments(_)
Segments(text) ==
    IF ~HasMarker(text) THEN <<text>>
    ELSE <<SubSeq(text, 1, FirstMarker(text) - 1)>>
            \o Segments(SubSeq(text, FirstMarker(text) + Len(PageBreak), Len(text)))

ThreePageExample ==
    <<"o", "n", "e", "\n", "\n", "-", "-", "-", " ", "P", "a", "g", "e", " ", "B", "r", "e", "a", "k", " ", "-", "-", "-", "\n", "\n", "\n", "\n", "-", "-", "-", " ", "P", "a", "g", "e", " ", "B", "r", "e", "a", "k", " ", "-", "-", "-", "\n", "\n", "t", "h", "r", "e", "e">>

\* C9: get_full_text of an n-page mapping, whatever the order of its items,
\* is the n page texts in ascending numeric page index separated by exactly
\* n-1 page-break markers; the segment of an empty page is empty and keeps
\* its markers, so three pages with a failed page 2 give
\* "one<marker><marker>three".
C9_FullTextInPageOrder ==
    ocr_pc = "joined" =>
        /\ images = 0 => full_text = <<>>
        /\ images > 0 =>
              /\ Len(Segments(full_text)) = images
              /\ \A k \in 1..images : Segments(full_text)[k] = ExpectedPageText(k)
        /\ (images = 3 /\ page_calls = <<"text", "raise", "text">>) =>
              full_text = ThreePageExample

\* ten pages or more, handed over in the opposite order, page 2 empty
C9_Witness ==
    /\ ocr_pc = "joined"
    /\ images >= 10
    /\ joined_order = "reversed"
    /\ page_calls[2] = "raise"
    /\ page_calls[10] = "text"

\* C17: a failed download of the PDF does not leave extract_text_from_url
\* as an exception: the call returns, with the empty result.
C17_DownloadFailureDegrades ==
    download \notin {"none", "ok"} =>
        /\ ocr_pc # "url_raised"
        /\ ocr_pc \in {"returned", "joined"} /\ extracted_text = <<>>

(***************************************************************************)
(* Ingestion Pipeline contract.                                            *)
(***************************************************************************)
SummariesOf(pid) == {j \in 1..Len(summaries) : summaries[j].paper_id = pid}
Handled(label) == {k \in 1..Len(outcomes) : outcomes[k] = label}
\* the passes that count an error: an exception in both loops, and a summary
\* that could not be saved in the loop of main.py
ErrorPasses ==
    Handled("extraction_raises") \cup Handled("export_raises")
        \cup (IF driver = "main" THEN Handled("unsaved") ELSE {})
ProcessedRows == {i \in 1..Len(papers) : papers[i].processed}

\* C10: a batch run never raises because of a paper.  A paper whose
\* extraction raises adds exactly one to the error count and stays
\* unprocessed with no summary; whatever happened to the papers before it,
\* every paper whose own calls succeed ends Processed with exactly one
\* summary (a real one, or the not-relevant one), every paper of the batch is
\* handled, and the papers outside the batch are untouched.  For a batch of 5
\* whose 3rd paper raises during extraction: 4 Processed papers, 1 error.
C10_BatchIsolatesPaperErrors ==
    /\ pipe_pc # "raised"
    /\ stats.errors = Cardinality(ErrorPasses)
    /\ \A k \in 1..Len(outcomes) :
          /\ outcomes[k] = "extraction_raises" =>
                /\ ~papers[batch[k].id].processed
                /\ SummariesOf(batch[k].id) = {}
          /\ outcomes[k] \in {"summarized", "not_relevant"} =>
                /\ papers[batch[k].id].processed
                /\ Cardinality(SummariesOf(batch[k].id)) = 1
    /\ \A i \in 1..Len(papers) :
          (\A k \in 1..Len(outcomes) : batch[k].id # i) => ~papers[i].processed
    /\ (pipe_pc = "done" /\ ocr_processor /\ summarizer) => Len(outcomes) = Len(batch)
    /\ (/\ pipe_pc = "done"
        /\ Len(batch) = 5
        /\ Handled("extraction_raises") = {3}
        /\ Handled("summarized") \cup Handled("not_relevant") = {1, 2, 4, 5}) =>
            /\ Cardinality(ProcessedRows) = 4
            /\ stats.errors = 1

\* the batch of the specification: 5 papers, the 3rd raises during extraction
C10_Witness ==
    /\ pipe_pc = "done"
    /\ driver = "crawler"
    /\ Len(batch) = 5
    /\ outcomes = <<"summarized", "not_relevant", "extraction_raises", "summarized", "summarized">>
    /\ Cardinality(ProcessedRows) = 4
    /\ stats = [processed |-> 3, skipped |-> 0, errors |-> 1]

\* the persisted state of the paper with row id i
SentinelSummaries(i) ==
    {j \in SummariesOf(i) :
        summaries[j].methodology_summary = "Not relevant to quantum computing"}
StateOf(i) ==
    IF ~papers[i].processed /\ SummariesOf(i) = {} THEN "Unprocessed"
    ELSE IF papers[i].processed /\ Cardinality(SummariesOf(i)) = 1
    THEN IF SentinelSummaries(i) # {} THEN "NotRelevant" ELSE "Summarized"
    ELSE "Inconsistent"
RowsOf(i) == <<papers[i], [j \in SummariesOf(i) |-> summaries[j]]>>
Selected(i) == \E k \in 1..Len(batch) : batch[k].id = i

\* a occurs in calls and every b of before occurs ahead of it
CalledAfter(calls, a, before) ==
    \E k \in 1..Len(calls) :
        /\ calls[k] = a
        /\ \A b \in before : \E j \in 1..(k - 1) : calls[j] = b

\* C11: in every step of every run, a paper's persisted state changes only
\* from Unprocessed, either to NotRelevant by a pass whose relevance check
\* said not relevant and that made no extraction or summarization call, or
\* to Summarized by a pass whose relevance check said relevant and that
\* extracted the text and made both summary calls before saving; a paper
\* that is NotRelevant or Summarized keeps its rows and is not in the batch
\* of any later run.
C11_PaperLifecycle ==
    [][\A i \in 1..Len(papers) :
          /\ StateOf(i) # "Inconsistent"
          /\ StateOf(i) # "Unprocessed" =>
                /\ RowsOf(i)' = RowsOf(i)
                /\ batch' # batch => ~Selected(i)'
          /\ StateOf(i)' # StateOf(i) =>
                /\ StateOf(i) = "Unprocessed"
                /\ last_pass'.id = i
                /\ \/ /\ StateOf(i)' = "NotRelevant"
                      /\ ~last_pass'.is_relevant
                      /\ last_pass'.calls = <<"check_quantum_relevance", "insert_summary">>
                   \/ /\ StateOf(i)' = "Summarized"
                      /\ last_pass'.is_relevant
                      /\ CalledAfter(last_pass'.calls, "insert_summary",
                                     {"check_quantum_relevance", "extract_text_from_url",
                                      "summarize_methodology", "extract_key_contributions"})
      ]_vars

\* a second run has ended: it took paper 2 to Summarized after paper 1 had
\* become NotRelevant in the first run, and its batch held paper 2 alone
C11_Witness ==
    /\ runs = 2
    /\ pipe_pc = "done"
    /\ Len(papers) = 2
    /\ StateOf(1) = "NotRelevant"
    /\ StateOf(2) = "Summarized"
    /\ last_pass.id = 2
    /\ Len(batch) = 1

\* the unprocessed papers published after the paper with row id i
NewerUnprocessed(i) ==
    {j \in 1..Len(papers) :
        ~papers[j].processed /\ papers[j].published > papers[i].published}
\* a run has selected its batch and has not handled a paper yet
BatchSelected == pipe_pc = "loop" /\ outcomes = <<>>

C12_InFlightCycleCompletes ==
    in_flight => (conn_open /\ crawl_pc # "exited")

\* position of the first e in ev, 0 when there is none
FirstAt(ev, e) ==
    IF \E i \in 1..Len(ev) : ev[i] = e
    THEN CHOOSE i \in 1..Len(ev) : ev[i] = e /\ \A j \in 1..(i - 1) : ev[j] # e
    ELSE 0

C16_ConcurrentInsertsOneRow ==
    /\ \A aid \in ArxivIds : Cardinality(PaperIdsWith(conn_table, aid)) <= 1
    /\ \A c \in Connections : \A k \in 1..Len(conn_calls[c]) :
          LET call == conn_calls[c][k]
              d == CHOOSE e \in Connections : e # c
          IN  /\ call.ret # None =>
                    /\ call.ret \in 1..Len(conn_table)
                    /\ conn_table[call.ret].arxiv_id = call.arxiv_id
                    /\ conn_table[call.ret].title = PaperDict(call.arxiv_id, c).title
              /\ (call.partner # 0 /\ Len(conn_calls[d]) >= call.partner) =>
                    LET other == conn_calls[d][call.partner]
                    IN  /\ other.arxiv_id = call.arxiv_id
                        /\ call.ret = None \/ other.ret = None
                        /\ Cardinality(PaperIdsWith(conn_table, call.arxiv_id)) = 1

\* C16 witness: connection 2 executed its INSERT while the INSERT of
\* connection 1 for the same new arxiv_id was written and not committed;
\* both calls have returned, the first with the identifier.
C16_Witness ==
    /\ \A c \in Connections : conn_pc[c] = "idle" /\ Len(conn_calls[c]) = 1
    /\ conn_calls[2][1].how = "locked"
    /\ conn_calls[2][1].partner = 1
    /\ conn_calls[1][1].ret # None
    /\ conn_calls[1][1].arxiv_id = conn_calls[2][1].arxiv_id

(***************************************************************************)
(* Configuration contract.                                                 *)
(***************************************************************************)
MissingCredential == ~ocr_key \/ ~summary_key

\* a step of process_papers / cmd_process from its call to the guard or the query
ProcessPapersStep == pipe_pc = "idle" /\ runs' = runs + 1
\* a step of search_new_papers that found a paper not stored yet
SearchStep == pipe_pc = "idle" /\ runs' = runs /\ papers' # papers

\* With a credential missing the search/store path keeps working:
\* search_new_papers inserts the new paper as an unprocessed row and leaves
\* every stored row as it is, and process_papers returns (the process command
\* exits) with no paper selected, no pass made and the Store unchanged.
StorePathWorks ==
    MissingCredential =>
        /\ SearchStep =>
              /\ Len(papers') = Len(papers) + 1
              /\ SubSeq(papers', 1, Len(papers)) = papers
              /\ ~papers'[Len(papers')].processed
              /\ summaries' = summaries
        /\ ProcessPapersStep =>
              /\ papers' = papers
              /\ summaries' = summaries
              /\ batch' = <<>>
              /\ outcomes' = <<>>
              /\ stats' = stats
              /\ pipe_pc' = IF driver = "crawler" THEN "done" ELSE "exited"
        /\ pipe_pc # "loop"

FlagSet(i) == ~papers[i].processed /\ papers'[i].processed

\* C22: In every committed Store state reachable through any sequence of
\* insert_paper and insert_summary calls, a stored paper's processed flag
\* is true exactly when at least one Summary row refers to that paper, and
\* the flag of a paper is set only by a step that inserts a Summary row for
\* that paper.
C22_ProcessedIffSummary ==
    /\ [](\A i \in 1..Len(papers) :
            papers[i].processed <=> SummariesOf(papers[i].id) # {})
    /\ [][\A i \in 1..Len(papers) :
            FlagSet(i) =>
                /\ Len(summaries') = Len(summaries) + 1
                /\ summaries'[Len(summaries')].paper_id = papers[i].id]_vars

\* the columns of a papers row other than the processed flag
SameFields(r, s) ==
    /\ r.id = s.id
    /\ r.arxiv_id = s.arxiv_id
    /\ r.title = s.title
    /\ r.published = s.published

\* C26: No operation deletes or rewrites stored data.  In every step, every
\* stored paper is still stored under the same id with the same fields, a
\* processed flag that is true stays true, and every stored Summary row is
\* still there, unmodified.
C26_NothingDeletedOrRewritten ==
    [][/\ Len(papers') >= Len(papers)
       /\ \A i \in 1..Len(papers) :
             /\ SameFields(papers[i], papers'[i])
             /\ papers[i].processed => papers'[i].processed
       /\ Len(summaries') >= Len(summaries)
       /\ \A j \in 1..Len(summaries) : summaries'[j] = summaries[j]]_vars

\* a processed paper got a second Summary, and then insert_paper was called
\* with its arxiv_id and another title
C26_Witness ==
    /\ Len(papers) >= 1
    /\ papers[1].processed
    /\ Cardinality(SummariesOf(1)) = 2
    /\ last.op = "insert_paper"
    /\ last.paper.arxiv_id = papers[1].arxiv_id
    /\ last.paper.title # papers[1].title
    /\ last.paper.title # NULL

(***************************************************************************)
(* Pipeline invariants.                                                    *)
(***************************************************************************)
\* C23: With one pipeline owning the Store, after any sequence of searches,
\* batch runs, stops and restarts every stored paper has at most one
\* Summary row (a real one or the not-relevant one), and every Summary row
\* belongs to a stored paper.
C23_AtMostOneSummary ==
    /\ \A i \in 1..Len(papers) : Cardinality(SummariesOf(papers[i].id)) <= 1
    /\ \A j \in 1..Len(summaries) : summaries[j].paper_id \in 1..Len(papers)

\* two runs have ended and every paper has its one Summary, one of them
\* saved in a pass that retried a paper the process had stopped in
C23_Witness ==
    /\ runs = MaxRuns
    /\ pipe_pc = "done"
    /\ Len(papers) = MaxPapers
    /\ \A i \in 1..Len(papers) :
          papers[i].processed /\ Cardinality(SummariesOf(papers[i].id)) = 1
    /\ last_pass.retry

(***************************************************************************)
(* Failure policy of the summarizer inside the pipeline.                   *)
(***************************************************************************)
\* this step is a pass of the loop; its paper and the way it ended
PassStep == Len(outcomes') = Len(outcomes) + 1
PassPaper == batch[Len(outcomes) + 1]
PassBranch == outcomes'[Len(outcomes')]
\* the Summary row this step committed
NewSummary == summaries'[Len(summaries')]

SummaryCallFailed(f) == f.methodology # "none" \/ f.contributions # "none"

\* C27: When summarize_methodology or extract_key_contributions fails, the
\* call returns its sentinel error string and the pass goes on as with any
\* text: no exception leaves the pass at the summary calls, insert_summary is
\* called with the string, and when it commits, the string is the stored
\* summary and the paper is processed; when the export succeeds too, the
\* pass counts one success and no error.  A paper whose stored summary is a
\* sentinel string is processed and is in no later batch.
C27_SentinelStoredAsSummary ==
    [][/\ (PassStep /\ SummaryCallFailed(last_pass'.faults)) =>
            /\ CalledAfter(last_pass'.calls, "insert_summary",
                           {"summarize_methodology", "extract_key_contributions"})
            /\ PassBranch \in {"summarized", "export_raises", "unsaved"}
            /\ PassBranch \in {"summarized", "export_raises"} =>
                  /\ Len(summaries') = Len(summaries) + 1
                  /\ NewSummary.paper_id = PassPaper.id
                  /\ last_pass'.faults.methodology # "none" =>
                        NewSummary.methodology_summary = MethodologyError
                  /\ last_pass'.faults.contributions # "none" =>
                        NewSummary.key_contributions = ContributionsError
                  /\ papers'[PassPaper.id].processed
            /\ PassBranch = "summarized" =>
                  /\ stats'.processed = stats.processed + 1
                  /\ stats'.errors = stats.errors
       /\ \A j \in 1..Len(summaries) :
            (\/ summaries[j].methodology_summary = MethodologyError
             \/ summaries[j].key_contributions = ContributionsError) =>
                /\ papers[summaries[j].paper_id].processed
                /\ batch' # batch => ~Selected(summaries[j].paper_id)'
      ]_vars

\* paper 1 was summarized in a run in which both summary calls failed; a
\* later run has ended without an error and without selecting it
C27_Witness ==
    /\ runs = 2
    /\ pipe_pc = "done"
    /\ Len(summaries) >= 1
    /\ summaries[1].methodology_summary = MethodologyError
    /\ summaries[1].key_contributions = ContributionsError
    /\ papers[summaries[1].paper_id].processed
    /\ stats.errors = 0
    /\ batch # <<>>
    /\ ~Selected(summaries[1].paper_id)

\* C29: When the relevance check fails with a transport or service error,
\* the pass is the pass of a not-relevant paper: only the relevance check
\* and insert_summary are called (no extraction, no summary call), no error
\* is counted, and when insert_summary commits, the paper has the 'Not
\* relevant' sentinel as its one Summary and is processed; it is then in no
\* later batch.
C29_RelevanceErrorIsNotRelevant ==
    [][/\ (PassStep /\ last_pass'.faults.relevance # "none") =>
            /\ ~last_pass'.is_relevant
            /\ last_pass'.calls = <<"check_quantum_relevance", "insert_summary">>
            /\ PassBranch \in {"not_relevant", "not_relevant_unsaved"}
            /\ stats'.errors = stats.errors
            /\ stats'.processed = stats.processed
            /\ PassBranch = "not_relevant" =>
                  /\ Len(summaries') = Len(summaries) + 1
                  /\ NewSummary.paper_id = PassPaper.id
                  /\ NewSummary.methodology_summary = "Not relevant to quantum computing"
                  /\ NewSummary.key_contributions = "N/A"
                  /\ \E pid \in {PassPaper.id} : StateOf(pid)' = "NotRelevant"
       /\ \A i \in 1..Len(papers) :
            StateOf(i) = "NotRelevant" =>
                /\ StateOf(i)' = "NotRelevant"
                /\ batch' # batch => ~Selected(i)'
      ]_vars

\* the relevance check of paper 1 failed in the first run and the sentinel
\* was saved; the second run has handled another paper without selecting it
C29_Witness ==
    /\ runs = 2
    /\ pipe_pc = "done"
    /\ Len(papers) = 2
    /\ StateOf(1) = "NotRelevant"
    /\ batch # <<>>
    /\ ~Selected(1)
    /\ stats.errors = 0
    /\ last_pass.faults.relevance = "transport"
    /\ last_pass.id = 2
    /\ StateOf(2) = "NotRelevant"

(***************************************************************************)
(* Collection summary contract.                                            *)
(***************************************************************************)
\* this step is step 3 of a cycle (or its omission) after process_papers
ExportStep == pipe_pc = "done" /\ pipe_pc' = "cycle_end"
Listed(ids) == {ids[k] : k \in 1..Len(ids)}

C30_SeenPapersAreStored ==
    query = 0 => \A paper_id \in seen_papers : ArxivIdTaken(papers, paper_id)

(***************************************************************************)
(* Scheduler: errors of a cycle.                                           *)
(***************************************************************************)
\* how often e stands in ev
Count(ev, e) == Cardinality({i \in 1..Len(ev) : ev[i] = e})

\* an exception was raised inside the cycle that ended last
LastCycleFailed ==
    /\ ~in_flight
    /\ Count(CycleEvents(events), "db_error") > 0

\* a step of the cycle in flight raises an exception
CycleRaises ==
    /\ in_flight
    /\ Count(events', "db_error") = Count(events, "db_error") + 1

\* C28: an exception raised inside a crawl cycle is caught and counted as
\* an error (the cycle ends at once with the error logged, the crawler keeps
\* running, its connection open, and goes to the poll loop); and it does not
\* stop the scheduler: while no termination signal arrives, the next due
\* cycle of a continuous crawler still runs.
C28_CycleErrorDoesNotStopScheduler ==
    /\ [][CycleRaises =>
             /\ crawl_pc' = "poll"
             /\ ~in_flight'
             /\ Count(events', "cycle_error") = Count(events, "cycle_error") + 1
             /\ running' = running
             /\ conn_open' = conn_open
             /\ events'[Len(events')] = "cycle_end"]_vars
    /\ \A k \in 1..(MaxCycles - 1) :
          (LastCycleFailed /\ cycles = k /\ continuous /\ crawl_pc = "poll")
              ~> (cycles = k + 1 \/ signalled)

\* C28 witness: the first cycle of a continuous crawler failed, no signal
\* has arrived, and the second cycle has been entered
C28_Witness ==
    /\ continuous
    /\ ~signalled
    /\ cycles = 2
    /\ crawl_pc = "search"
    /\ Count(events, "cycle_error") = 1

(***************************************************************************)
(* Shutdown and the transaction of insert_summary.                         *)
(***************************************************************************)
\* both effects of insert_summary for a paper are committed, or neither
BothOrNeither(i) ==
    papers[i].processed <=> (\E j \in 1..Len(summaries) : summaries[j].paper_id = i)

\* C25: a shutdown at any point, also between the INSERT and the UPDATE of
\* insert_summary, never leaves a half-written transaction committed: the
\* committed tables hold for every paper both the Summary row and the
\* processed flag or neither, they change only by the commit of a whole
\* insert_summary, and after the shutdown nothing uncommitted is left.
C25_ShutdownLeavesNoHalfTransaction ==
    /\ [](\A i \in 1..Len(papers) : BothOrNeither(i))
    /\ [](tx_pc = "exited" => tx_db = Db)
    /\ [][(papers' # papers \/ summaries' # summaries) =>
             /\ tx_pc = "updated"
             /\ tx_last'.ended = "committed"
             /\ [papers |-> papers', summaries |-> summaries'] =
                    insert_summary(Db, tx_call.paper_id, "methodology",
                                   "contributions", "none").db]_vars

\* C25 witness: the signal came between the INSERT and the UPDATE of the
\* call for a paper, after another paper had been summarized; the process
\* has exited and the committed tables hold nothing of the interrupted call
C25_Witness ==
    /\ tx_pc = "exited"
    /\ tx_last = [paper_id |-> tx_call.paper_id, at |-> "inserted", ended |-> "shutdown"]
    /\ ~papers[tx_call.paper_id].processed
    /\ \A j \in 1..Len(summaries) : summaries[j].paper_id # tx_call.paper_id
    /\ \E i \in 1..Len(papers) : papers[i].processed

(***************************************************************************)
(* Repeated cycles: does every paper get its turn.                         *)
(***************************************************************************)
Waiting(i) == i \in 1..Len(papers) /\ StateOf(i) = "Unprocessed"
Terminal(i) == i \in 1..Len(papers) /\ StateOf(i) \in {"NotRelevant", "Summarized"}
\* the last pass was the pass of paper i and one of its calls failed
AttemptFailed(i) == attempt.id = i /\ ~attempt.succeeded
\* a batch has just been pulled and paper i, unprocessed, is not in it
PassedOver(i) == BatchSelected /\ Waiting(i) /\ ~Selected(i)

\* C24 as stated: under repeated crawl cycles every paper stored as
\* Unprocessed eventually reaches a terminal state (NotRelevant or
\* Summarized) unless a call of one of its own passes fails; papers that
\* keep failing and newer papers that keep arriving do not keep it waiting.
C24_EveryPaperReachesTerminal ==
    \A i \in 1..MaxPapers : Waiting(i) ~> (Terminal(i) \/ AttemptFailed(i))

\* C24 amended: a pass whose calls succeed makes its paper terminal; a paper
\* is passed over by a batch only when batch_size unprocessed papers with a
\* later publication date fill it; and every paper stored as Unprocessed
\* eventually reaches a terminal state unless a call of one of its own
\* passes fails or a batch passes it over.
C24_ReachesTerminalUnlessPassedOver ==
    /\ []((attempt.id # 0 /\ attempt.succeeded) => Terminal(attempt.id))
    /\ [](\A i \in 1..Len(papers) :
             PassedOver(i) => Cardinality(NewerUnprocessed(i)) >= batch_size)
    /\ \A i \in 1..MaxPapers :
          Waiting(i) ~> (Terminal(i) \/ AttemptFailed(i) \/ PassedOver(i))

\* C24 witness: with batches of one paper, the older of two papers has had
\* its turn after the newer one and both are terminal
C24_Witness ==
    /\ batch_size = 1
    /\ Len(papers) = 2
    /\ papers[1].published < papers[2].published
    /\ Terminal(1)
    /\ Terminal(2)
    /\ attempt.id = 1
    /\ attempt.succeeded

====
